---- MODULE Spec2Model ----
(***************************************************************************)
(* A model of the themepro-safe-exporter tool chain:                       *)
(*   - PostExportAuditor (post-export-auditor.js): inventory, static and   *)
(*     runtime evidence, generateReports;                                  *)
(*   - the prune engines AutoExporter.step3_Cleanup (auto-export.js) and   *)
(*     UnusedFilesCleanup.cleanup (cleanup-unused.js);                     *)
(*   - the download loop and the rewrite pass of exporter_v2.js.           *)
(*                                                                         *)
(* Strings are sequences of tokens.  The one-character tokens "/", ".",    *)
(* "?", "#", "," and " " are the characters the code splits, slices and    *)
(* tests on; every other token is an opaque run of characters holding none *)
(* of them at a place the code looks at.  "a.png?v=1" is                   *)
(* <<"a.png", "?", "v=1">>, the empty string is <<>>.                      *)
(***************************************************************************)
EXTENDS Integers, Sequences, FiniteSets, TLC

(***************************************************************************)
(* Bounds of the model.                                                    *)
(***************************************************************************)
\* files of the mirror that nothing references, beside the named ones
MaxFiller == 9
\* requests recorded in the network log of one audit
MaxLog == 2
\* runs of a prune engine against one report
MaxRuns == 2
\* applications of the rewrite pass to one document
MaxPasses == 2
\* elements of one page
MaxElems == 2
\* failures of the browser in one run of the exporter
MaxFaults == 2

MaxInflight == 2

MaxRemaining == 2

(***************************************************************************)
(* String helpers (JavaScript String and node path, on token sequences).   *)
(***************************************************************************)
Last(s) == s[Len(s)]

Front(s) == SubSeq(s, 1, Len(s) - 1)

StartsWith(s, p) == Len(s) >= Len(p) /\ SubSeq(s, 1, Len(p)) = p

Slice(s, n) == SubSeq(s, n + 1, Len(s))

Includes(s, toks) == \E i \in 1..Len(s) : s[i] \in toks

\* s.split(sep): the pieces between the separators, empty pieces included
RECURSIVE Split(_, _)
Split(s, sep) ==
  IF \A i \in 1..Len(s) : s[i] # sep
    THEN <<s>>
    ELSE LET i == CHOOSE k \in 1..Len(s) :
                    s[k] = sep /\ \A j \in 1..(k - 1) : s[j] # sep
         IN  <<SubSeq(s, 1, i - 1)>> \o Split(SubSeq(s, i + 1, Len(s)), sep)

\* parts.join(sep), sep a token sequence
RECURSIVE Join(_, _)
Join(parts, sep) ==
  IF parts = <<>> THEN <<>>
  ELSE IF Len(parts) = 1 THEN parts[1]
  ELSE parts[1] \o sep \o Join(Tail(parts), sep)

\* path normalisation of node's path.join / path.relative: empty and "."
\* segments vanish, ".." removes the segment before it
RECURSIVE NormSegs(_, _)
NormSegs(segs, acc) ==
  IF segs = <<>> THEN acc
  ELSE LET h == Head(segs) IN
       IF h = <<>> \/ h = <<".">>
         THEN NormSegs(Tail(segs), acc)
       ELSE IF h = <<"..">> /\ acc # <<>> /\ Last(acc) # <<"..">>
         THEN NormSegs(Tail(segs), Front(acc))
       ELSE NormSegs(Tail(segs), Append(acc, h))

\* path.relative(exportDir, path.join(exportDir, p))
PathRelative(p) == Join(NormSegs(Split(p, "/"), <<>>), <<"/">>)

\* Math.round(n / 1024) for a byte count n >= 0
RoundKB(n) == (n + 512) \div 1024

(***************************************************************************)
(* Configuration of the auditor.                                           *)
(***************************************************************************)
entry_html == <<"index.html">>

ServerOrigin == "http://localhost:8082"

Origins == {ServerOrigin, "https://cdn.com", "https://s.com"}

DataSchemes == {"data:image/png;base64", "data:image/svg+xml;base64",
                "data:application/octet-stream;base64", "blob:"}

\* null of JavaScript, where a path is expected
Null == <<"null">>

(***************************************************************************)
(* The inputs of an audit: the mirror on disk, the references its entry    *)
(* document, stylesheets and scripts hold, the requests the browser makes. *)
(***************************************************************************)
Filler(i) == <<"unused", "/", ToString(i)>>

Fillers(n) == {Filler(i) : i \in 1..n}

APng == <<"a.png">>

BPng == <<"assets", "/", "b.png">>

\* the mirrors the model starts from: path -> size in bytes
MirrorChoices ==
  LET Opt(p, sizes) == {<<>>} \cup {<<p, s>> : s \in sizes}
      Named == {<<e, a, b>> : e \in Opt(entry_html, {0, 2048}),
                              a \in Opt(APng, {512, 1536}),
                              b \in Opt(BPng, {512})}
      Files(t, n) == {t[k][1] : k \in {j \in 1..3 : t[j] # <<>>}} \cup Fillers(n)
      SizeIn(t, p) == IF \E k \in 1..3 : t[k] # <<>> /\ t[k][1] = p
                        THEN LET k == CHOOSE j \in 1..3 : t[j] # <<>> /\ t[j][1] = p
                             IN  t[k][2]
                        ELSE 1024 + 100 * (CHOOSE i \in 1..MaxFiller : Filler(i) = p)
  IN  {[p \in Files(t, n) |-> SizeIn(t, p)] : t \in Named, n \in {0, MaxFiller}}

\* the order in which inventoryFiles meets the files (readdir order)
WalkRank(p) ==
  LET named == <<APng, BPng, <<"assets", "/", "c.woff2">>, <<"assets", "/", "s.css">>,
                 <<"c.woff2">>, <<"d.js">>, <<"e.png">>, <<"export-info.json">>,
                 entry_html, <<"s.css">>>>
  IN  IF \E k \in 1..Len(named) : named[k] = p
        THEN CHOOSE k \in 1..Len(named) : named[k] = p
        ELSE Len(named) + (CHOOSE i \in 1..MaxFiller : Filler(i) = p)

RECURSIVE WalkDir(_)
WalkDir(files) ==
  IF files = {} THEN <<>>
  ELSE LET f == CHOOSE x \in files : \A y \in files : WalkRank(x) <= WalkRank(y)
       IN  <<f>> \o WalkDir(files \ {f})

\* path.extname of the last segment
ExtName(p) ==
  IF p = <<>> THEN ""
  ELSE IF Last(p) \in {"a.png", "b.png", "e.png"} THEN ".png"
  ELSE IF Last(p) = "index.html" THEN ".html"
  ELSE IF Last(p) \in {"missing.css", "s.css"} THEN ".css"
  ELSE IF Last(p) \in {"x.js", "d.js"} THEN ".js"
  ELSE IF Last(p) = "c.woff2" THEN ".woff2"
  ELSE IF Last(p) = "export-info.json" THEN ".json"
  ELSE ""

\* references found by extractFromHTML / extractCSSUrls / extractJSUrls
RefCatalogue ==
  { [url |-> <<"a.png">>, type |-> "image", source |-> "html"],
    [url |-> <<"/", "a.png", "?", "v=1">>, type |-> "image", source |-> "html-srcset"],
    [url |-> <<"a.png", "?", "v=2", "#", "x">>, type |-> "image", source |-> "html-srcset"],
    [url |-> <<".", "/", "assets", "/", "b.png">>, type |-> "image", source |-> "html"],
    [url |-> <<"missing.css">>, type |-> "css", source |-> "html"],
    [url |-> <<"https://cdn.com", "/", "x.js">>, type |-> "js", source |-> "html"],
    [url |-> <<"data:image/png;base64", ",", "QUFB">>, type |-> "image", source |-> "html"] }

\* req.url() of the requests a page of the audit can make
RequestCatalogue ==
  { <<ServerOrigin, "/">>,
    <<ServerOrigin, "/", "assets", "/", "b.png">>,
    <<ServerOrigin, "/", "index.html">>,
    <<"https://cdn.com", "/", "x.js">> }

VARIABLES
  exportDir,      \* the mirror on disk: path -> size
  auditReport,    \* audit/audit-report.json on disk, or NoReport
  apc,            \* where PostExportAuditor.audit() is
  fileInventory,  \* this.fileInventory, in insertion order
  staticAssets,   \* this.staticAssets: normalized url -> info
  networkLog,     \* this.networkLog: the urls requested
  runtimeAssets,  \* this.runtimeAssets
  usedFiles,      \* generateReports: usedFiles
  unusedFiles,    \* generateReports: unusedFiles, sorted
  backupDir,      \* the backup root on disk: path -> size
  engine,         \* the prune engine in use: "auto" or "standalone"
  ppc,            \* where the prune engine is
  unusedList,     \* the prune engine's unusedFiles, read from the report
  idx,            \* position of the for-of loop in unusedList
  deleted,        \* the files counted in deletedCount by the current run
  runs,           \* runs of the prune engine begun so far
  xpc,            \* where main() of exporter_v2.js is
  baseHTML,       \* the markup of the base viewport, as parsed
  allResources,   \* the resources captured across the viewports
  doc,            \* the JSDOM document main() works on
  combinedAssets, \* the candidates, in insertion order
  di,             \* position of the for-of loop in combinedAssets
  responses,      \* what download() gave for each candidate so far
  rewriteMap,     \* rewriteMap: candidate -> reference
  dist,           \* the files written under dist/: path -> url fetched
  cssFiles,       \* cssFiles
  jsFiles,        \* jsFiles
  otherFiles,     \* otherFiles
  passes,         \* applications of the rewrite pass to doc
  rpc,            \* where renderMultiViewport / renderAndCollect is
  vp,             \* position of the for-of loop in BREAKPOINTS
  si,             \* position of openCommonUI in its selectors
  pages,          \* the pages of the browser that are open, by viewport
  reqUrls,        \* reqUrls of each call of renderAndCollect
  pageMarkup,     \* html of the call of renderAndCollect in progress
  results,        \* results of renderMultiViewport
  consoleLog,     \* console.log: the lines about interrupted clicks
  exportError,    \* the error main() rejects with, "" when none
  faults,         \* failures of the browser so far
  server,         \* this.server of the auditor: "null", "listening" or "closed"
  pageOpen,       \* a page of the auditor's browser is open
  wpc,            \* where AutoExporter.run() is, "off" when it does not run
  finalDir,       \* this.finalDir on disk: path -> size
  pageName,       \* this.pageName, the name of the final directory
  hpc,            \* where the scroll and the network-idle wait of a page are
  scroller,       \* whose auto-scroll runs in the page
  total,          \* autoScroll: total, the steps scrolled (i of performAutoScroll)
  remaining,      \* what is left below the viewport, in scroll steps
  inflight,       \* waitForNetworkIdle: inflight
  timerId,        \* waitForNetworkIdle: the idle timer is pending
  tId,            \* waitForNetworkIdle: t, the ceiling timer, is pending
  listeners,      \* the events waitForNetworkIdle listens to on the page
  observedOpen,   \* requests in flight whose 'request' event the wait has seen
  earlierOpen     \* requests in flight that began before the wait listened

auditVars == <<apc, fileInventory, staticAssets, networkLog, runtimeAssets,
               usedFiles, unusedFiles, server, pageOpen>>

pruneVars == <<backupDir, engine, ppc, unusedList, idx, deleted, runs>>

exporterVars == <<xpc, baseHTML, allResources, doc, combinedAssets, di,
                  responses, rewriteMap, dist, cssFiles, jsFiles, otherFiles,
                  passes>>

renderVars == <<rpc, vp, si, pages, reqUrls, pageMarkup, results, consoleLog,
                exportError, faults, hpc, scroller, total, remaining, inflight,
                timerId, tId, listeners, observedOpen, earlierOpen>>

workflowVars == <<wpc, finalDir, pageName>>

NoReport == [exists |-> FALSE]

(***************************************************************************)
(* PostExportAuditor                                                       *)
(***************************************************************************)
normalizeURL(url) == Split(Split(url, "?")[1], "#")[1]

\* the path under exportDir, kept relative to it (path.join normalises)
resolveLocalPath(url) ==
  IF StartsWith(url, <<".", "/">>) THEN PathRelative(Slice(url, 2))
  ELSE IF StartsWith(url, <<"/">>) THEN PathRelative(Slice(url, 1))
  ELSE IF ~Includes(url, Origins) THEN PathRelative(url)
  ELSE Null

\* a set() on every reference: the node is written anew and the sources it had
\* are dropped
addStaticAssetOverwrite(assets, url, type, source) ==
  IF url # <<>> /\ Head(url) \in DataSchemes THEN assets
  ELSE LET n == normalizeURL(url) IN
       [u \in DOMAIN assets \cup {n} |->
          IF u = n THEN [type |-> type, sources |-> {source},
                         localPath |-> resolveLocalPath(n)]
          ELSE assets[u]]

\* PostExportAuditor.addStaticAsset; StaticExportAuditor.addToDependencyGraph of
\* audit-export.js is the same code on this.dependencyGraph
addStaticAsset(assets, url, type, source) ==
  IF url # <<>> /\ Head(url) \in DataSchemes THEN assets
  ELSE LET n == normalizeURL(url) IN
       IF n \notin DOMAIN assets
         THEN [u \in DOMAIN assets \cup {n} |->
                 IF u = n THEN [type |-> type, sources |-> {source},
                                localPath |-> resolveLocalPath(n)]
                 ELSE assets[u]]
         ELSE [assets EXCEPT ![n].sources = @ \cup {source}]

\* the inventory is taken by a fresh walk of the export directory
InventoryFiles ==
  /\ apc = "inventory"
  /\ fileInventory' = [i \in 1..Cardinality(DOMAIN exportDir) |->
                         LET p == WalkDir(DOMAIN exportDir)[i]
                         IN  [path |-> p, size |-> exportDir[p],
                              extension |-> ExtName(p)]]
  /\ apc' = "static"
  /\ UNCHANGED <<staticAssets, networkLog, runtimeAssets, usedFiles, unusedFiles,
                 server, pageOpen>>
  /\ UNCHANGED <<exportDir, auditReport, pruneVars, exporterVars, renderVars, workflowVars>>

cleanupLeavesServer(srv) == srv

\* cleanup(): if (this.server) this.server.close()
cleanup(srv) == IF srv # "null" THEN "closed" ELSE srv

\* staticAnalysis throws when the entry document is missing; audit() rethrows
EntryMissing ==
  /\ apc = "static"
  /\ entry_html \notin DOMAIN exportDir
  /\ apc' = "failed"
  /\ server' = cleanup(server)
  /\ UNCHANGED <<fileInventory, staticAssets, networkLog, runtimeAssets,
                 usedFiles, unusedFiles, pageOpen>>
  /\ UNCHANGED <<exportDir, auditReport, pruneVars, exporterVars, renderVars, workflowVars>>

\* runtimeAnalysis: chromium.launch() rejects before any page exists; audit()
\* rethrows, and main().catch(console.error) ends the process with code 0
LaunchFails ==
  /\ apc = "runtime"
  /\ networkLog = <<>>
  /\ ~pageOpen
  /\ apc' = "failed"
  /\ server' = cleanup(server)
  /\ UNCHANGED <<fileInventory, staticAssets, networkLog, runtimeAssets,
                 usedFiles, unusedFiles, pageOpen>>
  /\ UNCHANGED <<exportDir, auditReport, pruneVars, exporterVars, renderVars, workflowVars>>

\* one reference met by the static analysis
ExtractRef(r) ==
  /\ apc = "static"
  /\ entry_html \in DOMAIN exportDir
  /\ staticAssets' = addStaticAsset(staticAssets, r.url, r.type, r.source)
  /\ UNCHANGED <<apc, fileInventory, networkLog, runtimeAssets, usedFiles, unusedFiles,
                 server, pageOpen>>
  /\ UNCHANGED <<exportDir, auditReport, pruneVars, exporterVars, renderVars, workflowVars>>

\* staticAnalysis has ended and runtimeAnalysis has begun: startLocalServer()
\* has resolved, the browser is not launched yet
StaticDone ==
  /\ apc = "static"
  /\ entry_html \in DOMAIN exportDir
  /\ apc' = "runtime"
  /\ server' = "listening"
  /\ UNCHANGED <<fileInventory, staticAssets, networkLog, runtimeAssets,
                 usedFiles, unusedFiles, pageOpen>>
  /\ UNCHANGED <<exportDir, auditReport, pruneVars, exporterVars, renderVars, workflowVars>>

\* page.on('request'): every request of every viewport is pushed on the log
OnRequest(u) ==
  /\ apc = "runtime"
  /\ pageOpen
  /\ Len(networkLog) < MaxLog
  /\ networkLog' = Append(networkLog, u)
  /\ UNCHANGED <<apc, fileInventory, staticAssets, runtimeAssets, usedFiles, unusedFiles,
                 server, pageOpen>>
  /\ UNCHANGED <<exportDir, auditReport, pruneVars, exporterVars, renderVars, workflowVars>>

\* runtimeAnalysis: browser.newPage() for the next viewport
AuditNewPage ==
  /\ apc = "runtime"
  /\ ~pageOpen
  /\ pageOpen' = TRUE
  /\ UNCHANGED <<apc, fileInventory, staticAssets, networkLog, runtimeAssets,
                 usedFiles, unusedFiles, server>>
  /\ UNCHANGED <<exportDir, auditReport, pruneVars, exporterVars, renderVars, workflowVars>>

\* runtimeAnalysis: the try block of the viewport has ended or its error was
\* caught and logged; page.close() follows the catch
AuditClosePage ==
  /\ apc = "runtime"
  /\ pageOpen
  /\ pageOpen' = FALSE
  /\ UNCHANGED <<apc, fileInventory, staticAssets, networkLog, runtimeAssets,
                 usedFiles, unusedFiles, server>>
  /\ UNCHANGED <<exportDir, auditReport, pruneVars, exporterVars, renderVars, workflowVars>>

\* the end of runtimeAnalysis: the requests to the local server, less its origin
RuntimeDone ==
  /\ apc = "runtime"
  /\ ~pageOpen
  /\ runtimeAssets' = {Tail(networkLog[i]) :
                         i \in {k \in 1..Len(networkLog) : Head(networkLog[k]) = ServerOrigin}}
  /\ apc' = "reports"
  /\ UNCHANGED <<fileInventory, staticAssets, networkLog, usedFiles, unusedFiles,
                 server, pageOpen>>
  /\ UNCHANGED <<exportDir, auditReport, pruneVars, exporterVars, renderVars, workflowVars>>

\* usedFiles of generateReports
UsedFilesOf(assets, runtime) ==
  {assets[u].localPath : u \in {x \in DOMAIN assets : assets[x].localPath # Null}}
    \cup {Slice(u, 1) : u \in {x \in runtime : StartsWith(x, <<"/">>)}}

\* the inventory entries that usedFiles does not hold, in inventory order
RECURSIVE UnusedOf(_, _)
UnusedOf(inv, used) ==
  IF inv = <<>> THEN <<>>
  ELSE LET f == Head(inv)
           rest == UnusedOf(Tail(inv), used)
       IN  IF f.path \notin used /\ (<<"/">> \o f.path) \notin used
             THEN <<[path |-> f.path, size |-> f.size, sizeKB |-> RoundKB(f.size),
                     extension |-> f.extension]>> \o rest
             ELSE rest

\* Array.prototype.sort((a, b) => b.size - a.size): stable, descending by size
RECURSIVE InsertBySize(_, _)
InsertBySize(sorted, f) ==
  IF sorted = <<>> THEN <<f>>
  ELSE IF Head(sorted).size >= f.size
    THEN <<Head(sorted)>> \o InsertBySize(Tail(sorted), f)
    ELSE <<f>> \o sorted

RECURSIVE SortBySize(_)
SortBySize(files) ==
  IF files = <<>> THEN <<>>
  ELSE InsertBySize(SortBySize(Front(files)), Last(files))

RECURSIVE SumSize(_)
SumSize(files) == IF files = <<>> THEN 0 ELSE Head(files).size + SumSize(Tail(files))

\* largest_unused_files: unusedFiles.slice(0, 10)
LargestCount == 10

\* Math.round((unusedSize / totalSize) * 100); 0 / 0 is NaN, written as null
NaN == -1

WastePercentage(unusedSize, totalSize) ==
  IF totalSize = 0 THEN NaN
  ELSE (200 * unusedSize + totalSize) \div (2 * totalSize)

\* groupFilesByType: per extension, the count and the sum of the files' sizeKB
groupFilesByType(files) ==
  LET ExtOf(f) == IF f.extension = "" THEN "no-extension" ELSE f.extension
      RECURSIVE SumKB(_, _)
      SumKB(fs, e) ==
        IF fs = <<>> THEN 0
        ELSE (IF ExtOf(Head(fs)) = e THEN Head(fs).sizeKB ELSE 0) + SumKB(Tail(fs), e)
  IN  [e \in {ExtOf(files[i]) : i \in 1..Len(files)} |->
         [count |-> Cardinality({i \in 1..Len(files) : ExtOf(files[i]) = e}),
          total_size_kb |-> SumKB(files, e)]]

ReportOf(inv, used, unused) ==
  LET totalSize == SumSize(inv)
      unusedSize == SumSize(unused)
      usedSize == totalSize - unusedSize
  IN  [exists |-> TRUE,
       summary |-> [total_files |-> Len(inv),
                    used_files |-> Cardinality(used),
                    unused_files |-> Len(unused),
                    total_size_kb |-> RoundKB(totalSize),
                    used_size_kb |-> RoundKB(usedSize),
                    unused_size_kb |-> RoundKB(unusedSize),
                    waste_percentage |-> WastePercentage(unusedSize, totalSize)],
       largest_unused_files |->
         SubSeq(unused, 1, IF Len(unused) < LargestCount THEN Len(unused) ELSE LargestCount),
       unused_files_by_type |-> groupFilesByType(unused)]

GenerateReports ==
  /\ apc = "reports"
  /\ usedFiles' = UsedFilesOf(staticAssets, runtimeAssets)
  /\ unusedFiles' = SortBySize(UnusedOf(fileInventory, usedFiles'))
  /\ auditReport' = ReportOf(fileInventory, usedFiles', unusedFiles')
  /\ apc' = "done"
  /\ server' = cleanup(server)
  /\ UNCHANGED <<fileInventory, staticAssets, networkLog, runtimeAssets, pageOpen>>
  /\ UNCHANGED <<exportDir, pruneVars, exporterVars, renderVars, workflowVars>>

\* generateReports rejects at one of its writes, before audit-report.json is
\* written or after it; audit() rethrows after cleanup()
ReportWriteFails(written) ==
  /\ apc = "reports"
  /\ IF written
       THEN /\ usedFiles' = UsedFilesOf(staticAssets, runtimeAssets)
            /\ unusedFiles' = SortBySize(UnusedOf(fileInventory, usedFiles'))
            /\ auditReport' = ReportOf(fileInventory, usedFiles', unusedFiles')
       ELSE UNCHANGED <<usedFiles, unusedFiles, auditReport>>
  /\ apc' = "failed"
  /\ server' = cleanup(server)
  /\ UNCHANGED <<fileInventory, staticAssets, networkLog, runtimeAssets, pageOpen>>
  /\ UNCHANGED <<exportDir, pruneVars, exporterVars, renderVars, workflowVars>>

\* audit() has returned or thrown and the auditor's process ends: its fields
\* are gone, the report on disk stays.  unusedFiles is kept as the record of
\* what this audit classified as unused.
AuditExit ==
  /\ apc \in {"done", "failed"}
  /\ apc' = "exited"
  /\ fileInventory' = <<>>
  /\ staticAssets' = <<>>
  /\ networkLog' = <<>>
  /\ runtimeAssets' = {}
  /\ usedFiles' = {}
  /\ server' = "null"
  /\ pageOpen' = FALSE
  /\ UNCHANGED unusedFiles
  /\ UNCHANGED <<exportDir, auditReport, pruneVars, exporterVars, renderVars, workflowVars>>

AuditInit ==
  /\ apc = "inventory"
  /\ server = "null"
  /\ pageOpen = FALSE
  /\ fileInventory = <<>>
  /\ staticAssets = <<>>
  /\ networkLog = <<>>
  /\ runtimeAssets = {}
  /\ usedFiles = {}
  /\ unusedFiles = <<>>
  /\ auditReport = NoReport

(***************************************************************************)
(* The prune engines.  Both read largest_unused_files of the report and    *)
(* walk it with the same loop; each file-system call is one step.          *)
(***************************************************************************)
EmptyDir == <<>>

\* a copy that is lost: nothing is written under the backup root
CopyLost(dir, p, size) == dir

\* fs.copy(filePath, backupPath): the file, unchanged, at the same relative path
CopyInto(dir, p, size) == [q \in DOMAIN dir \cup {p} |-> IF q = p THEN size ELSE dir[q]]

\* fs.remove(filePath)
RemoveFrom(dir, p) == [q \in DOMAIN dir \ {p} |-> dir[q]]

CanBegin(e) ==
  /\ apc = "exited"
  /\ ppc \in {"idle", "done"}
  /\ engine \in {"none", e}
  /\ runs < MaxRuns
  /\ wpc = "off" \/ (wpc = "step3" /\ e = "auto" /\ runs = 0)

\* AutoExporter.step3_Cleanup, up to the loop
Step3Begin ==
  /\ CanBegin("auto")
  /\ engine' = "auto"
  /\ runs' = runs + 1
  /\ deleted' = {}
  /\ idx' = 1
  /\ IF ~auditReport.exists
       THEN ppc' = "failed" /\ UNCHANGED <<unusedList, backupDir>>
     ELSE IF auditReport.largest_unused_files = <<>>
       THEN ppc' = "done" /\ unusedList' = <<>> /\ UNCHANGED backupDir
     ELSE /\ ppc' = "loop"
          /\ unusedList' = auditReport.largest_unused_files
          /\ backupDir' = EmptyDir
  /\ UNCHANGED exportDir
  /\ UNCHANGED <<auditReport, auditVars, exporterVars, renderVars, workflowVars>>

\* one turn of the loop: skip index.html, then the existence check
Step3Loop ==
  /\ engine = "auto" /\ ppc = "loop" /\ idx <= Len(unusedList)
  /\ IF unusedList[idx].path = <<"index.html">>
       THEN ppc' = "loop" /\ idx' = idx + 1
     ELSE IF unusedList[idx].path \in DOMAIN exportDir
       THEN ppc' = "copy" /\ idx' = idx
     ELSE ppc' = "loop" /\ idx' = idx + 1
  /\ UNCHANGED <<exportDir, backupDir, engine, unusedList, deleted, runs>>
  /\ UNCHANGED <<auditReport, auditVars, exporterVars, renderVars, workflowVars>>

Step3Copy ==
  /\ engine = "auto" /\ ppc = "copy"
  /\ backupDir' = CopyInto(backupDir, unusedList[idx].path, exportDir[unusedList[idx].path])
  /\ ppc' = "remove"
  /\ UNCHANGED <<exportDir, engine, unusedList, idx, deleted, runs>>
  /\ UNCHANGED <<auditReport, auditVars, exporterVars, renderVars, workflowVars>>

Step3Remove ==
  /\ engine = "auto" /\ ppc = "remove"
  /\ exportDir' = RemoveFrom(exportDir, unusedList[idx].path)
  /\ deleted' = deleted \cup {unusedList[idx].path}
  /\ idx' = idx + 1
  /\ ppc' = "loop"
  /\ UNCHANGED <<backupDir, engine, unusedList, runs>>
  /\ UNCHANGED <<auditReport, auditVars, exporterVars, renderVars, workflowVars>>

\* after the loop: cleanupEmptyDirectories removes directories, never a file
Step3End ==
  /\ engine = "auto" /\ ppc = "loop" /\ idx > Len(unusedList)
  /\ ppc' = "done"
  /\ UNCHANGED <<exportDir, backupDir, engine, unusedList, idx, deleted, runs>>
  /\ UNCHANGED <<auditReport, auditVars, exporterVars, renderVars, workflowVars>>

\* cleanup-unused.js: main and UnusedFilesCleanup.cleanup, up to the loop
CleanupBegin ==
  /\ CanBegin("standalone")
  /\ engine' = "standalone"
  /\ runs' = runs + 1
  /\ deleted' = {}
  /\ idx' = 1
  /\ IF ~auditReport.exists
       THEN ppc' = "failed" /\ UNCHANGED unusedList
     ELSE IF auditReport.largest_unused_files = <<>>
       THEN ppc' = "done" /\ unusedList' = <<>>
     ELSE ppc' = "loop" /\ unusedList' = auditReport.largest_unused_files
  /\ UNCHANGED <<exportDir, backupDir>>
  /\ UNCHANGED <<auditReport, auditVars, exporterVars, renderVars, workflowVars>>

CleanupLoop ==
  /\ engine = "standalone" /\ ppc = "loop" /\ idx <= Len(unusedList)
  /\ IF unusedList[idx].path \in DOMAIN exportDir
       THEN ppc' = "copy" /\ idx' = idx
       ELSE ppc' = "loop" /\ idx' = idx + 1
  /\ UNCHANGED <<exportDir, backupDir, engine, unusedList, deleted, runs>>
  /\ UNCHANGED <<auditReport, auditVars, exporterVars, renderVars, workflowVars>>

CleanupCopy ==
  /\ engine = "standalone" /\ ppc = "copy"
  /\ backupDir' = CopyInto(backupDir, unusedList[idx].path, exportDir[unusedList[idx].path])
  /\ ppc' = "remove"
  /\ UNCHANGED <<exportDir, engine, unusedList, idx, deleted, runs>>
  /\ UNCHANGED <<auditReport, auditVars, exporterVars, renderVars, workflowVars>>

CleanupRemove ==
  /\ engine = "standalone" /\ ppc = "remove"
  /\ exportDir' = RemoveFrom(exportDir, unusedList[idx].path)
  /\ deleted' = deleted \cup {unusedList[idx].path}
  /\ idx' = idx + 1
  /\ ppc' = "loop"
  /\ UNCHANGED <<backupDir, engine, unusedList, runs>>
  /\ UNCHANGED <<auditReport, auditVars, exporterVars, renderVars, workflowVars>>

CleanupEnd ==
  /\ engine = "standalone" /\ ppc = "loop" /\ idx > Len(unusedList)
  /\ ppc' = "done"
  /\ UNCHANGED <<exportDir, backupDir, engine, unusedList, idx, deleted, runs>>
  /\ UNCHANGED <<auditReport, auditVars, exporterVars, renderVars, workflowVars>>

PruneInit ==
  /\ backupDir = EmptyDir
  /\ engine = "none"
  /\ ppc = "idle"
  /\ unusedList = <<>>
  /\ idx = 1
  /\ deleted = {}
  /\ runs = 0

(***************************************************************************)
(* exporter_v2.js: the candidates, the download loop, the rewrite pass.    *)
(* A url is an origin token followed by its path, query and fragment       *)
(* tokens; a data: URI is its "data:<type>;base64" token, "," and the      *)
(* payload.                                                                *)
(***************************************************************************)
\* the page exported: argv
url == <<"https://s.com", "/">>

SMALL_INLINE_MAX == 5 * 1024

ASSETS_DIR == <<"dist", "/", "assets">>

\* `${b.protocol}//${host}` of the hosts the pages name
HostOrigin == [h \in {"s.com", "cdn.com"} |-> IF h = "s.com" THEN "https://s.com"
                                                            ELSE "https://cdn.com"]

\* new URL(u) does not throw
isAbsolute(u) == u # <<>> /\ u[1] \in Origins \cup DataSchemes

\* index of the first "?" or "#" of s, Len(s) + 1 when it has none
QueryStart(s) ==
  IF \E i \in 1..Len(s) : s[i] \in {"?", "#"}
    THEN CHOOSE i \in 1..Len(s) :
           s[i] \in {"?", "#"} /\ \A j \in 1..(i - 1) : s[j] \notin {"?", "#"}
    ELSE Len(s) + 1

\* the dot segments of a url path: "." vanishes, ".." removes the segment
\* before it, and either one at the end leaves the trailing slash
RECURSIVE RemoveDots(_, _)
RemoveDots(segs, acc) ==
  IF segs = <<>> THEN acc
  ELSE LET h == Head(segs)
           t == Tail(segs)
       IN  IF h = <<".">>
             THEN IF t = <<>> THEN Append(acc, <<>>) ELSE RemoveDots(t, acc)
           ELSE IF h = <<"..">>
             THEN LET up == IF acc = <<>> THEN acc ELSE Front(acc)
                  IN  IF t = <<>> THEN Append(up, <<>>) ELSE RemoveDots(t, up)
           ELSE RemoveDots(t, Append(acc, h))

\* new URL(absUrl).pathname, absUrl an http(s) url without dot segments
Pathname(absUrl) ==
  LET rest == Slice(absUrl, 1)
      p == SubSeq(rest, 1, QueryStart(rest) - 1)
  IN  IF p = <<>> THEN <<"/">> ELSE p

\* new URL(u, base).toString(), u neither empty nor absolute
ResolveRelative(base, u) ==
  LET q == QueryStart(u)
      upath == SubSeq(u, 1, q - 1)
      suffix == SubSeq(u, q, Len(u))
      bsegs == Split(Slice(Pathname(base), 1), "/")
      segs == IF StartsWith(upath, <<"/">>)
                THEN Split(Slice(upath, 1), "/")
                ELSE Front(bsegs) \o Split(upath, "/")
  IN  <<base[1], "/">> \o Join(RemoveDots(segs, <<>>), <<"/">>) \o suffix

toAbsolute(base, u) ==
  IF u = Null \/ u = <<>> THEN Null
  ELSE IF isAbsolute(u) THEN u
  ELSE IF StartsWith(u, <<"/", "/">>) THEN <<HostOrigin[u[3]]>> \o Slice(u, 3)
  ELSE ResolveRelative(base, u)

localAssetPath(absUrl) ==
  LET p0 == Pathname(absUrl)
      p == IF Last(p0) = "/" THEN Append(p0, "index.html") ELSE p0
  IN  Join(NormSegs(Split(ASSETS_DIR \o <<"/">> \o p, "/"), <<>>), <<"/">>)

relFromIndex(absUrl) ==
  LET p0 == Pathname(absUrl)
      p == IF Last(p0) = "/" THEN Append(p0, "index.html") ELSE p0
  IN  <<".", "/", "assets">> \o p

\* the extension a token ends with
AtomExt(t) ==
  IF t \in {"a.png", "b.png"} THEN "png"
  ELSE IF t = "s.css" THEN "css"
  ELSE IF t \in {"x.js", "app.js"} THEN "js"
  ELSE IF t = "f.woff2" THEN "woff2"
  ELSE IF t = "favicon.ico" THEN "ico"
  ELSE ""

\* /\.(e1|e2|...)(\?|#|$)/i.test(p)
ExtTest(p, exts) ==
  \E i \in 1..Len(p) :
    /\ AtomExt(p[i]) \in exts
    /\ i = Len(p) \/ p[i + 1] \in {"?", "#"}

isLikelyFont(p) == ExtTest(p, {"woff", "woff2", "ttf", "otf", "eot"})

isLikelyImage(p) == ExtTest(p, {"png", "jpg", "jpeg", "gif", "webp", "svg", "avif"})

isLikelyCSS(p) == ExtTest(p, {"css"})

isLikelyJS(p) == ExtTest(p, {"js", "mjs"})

\* what the server sends for a url when the request succeeds
Served(absUrl) ==
  IF absUrl[1] = "https://s.com" /\ "a.png" \in {absUrl[i] : i \in 1..Len(absUrl)}
    THEN [length |-> SMALL_INLINE_MAX, contentType |-> "image/png", base64 |-> "QUFB"]
  ELSE IF "b.png" \in {absUrl[i] : i \in 1..Len(absUrl)}
    THEN [length |-> SMALL_INLINE_MAX + 1, contentType |-> "image/png", base64 |-> "QkJC"]
  ELSE IF "a.png" \in {absUrl[i] : i \in 1..Len(absUrl)}
    THEN [length |-> 100, contentType |-> "", base64 |-> "Q0ND"]
  ELSE [length |-> 300, contentType |-> "text/plain", base64 |-> "ZGF0"]

\* `data:${ct};base64,${base64}`
toDataUri(buffer, contentType, fallbackExt) ==
  LET ct == IF contentType # "" THEN contentType
            ELSE IF fallbackExt = "svg" THEN "image/svg+xml"
            ELSE "application/octet-stream"
      head == IF ct = "image/png" THEN "data:image/png;base64"
              ELSE IF ct = "image/svg+xml" THEN "data:image/svg+xml;base64"
              ELSE "data:application/octet-stream;base64"
  IN  <<head, ",", buffer.base64>>

\* an element of the document: its tag and the attributes the exporter reads;
\* Null is an attribute the element does not have
Element(tag, rel, href, src, dataSrc, srcset, integrity) ==
  [tag |-> tag, rel |-> rel, href |-> href, src |-> src, dataSrc |-> dataSrc,
   srcset |-> srcset, integrity |-> integrity]

\* the elements the rendered pages are made of
ElementCatalogue ==
  << Element("link", "stylesheet", <<"/", "s.css">>, Null, Null, Null, <<"sha384-s">>),
     Element("script", "", Null, <<"https://cdn.com", "/", "x.js">>, Null, Null, <<"sha384-x">>),
     Element("img", "", Null, <<"/", "a.png">>, Null,
             <<"/", "a.png", " ", "1x", ",", "/", "b.png", " ", "2x">>, Null),
     Element("img", "", Null, Null, <<"/", "b.png">>, Null, Null),
     Element("img", "", Null, <<"/", "a.png">>, <<"/", "b.png">>, Null, Null),
     Element("link", "icon", <<"/", "favicon.ico">>, Null, Null, Null, Null),
     Element("source", "", Null, Null, Null, <<"b.png", " ", "2x">>, Null),
     Element("script", "", Null, <<"/", "/", "cdn.com", "/", "x.js">>, Null, Null, Null),
     Element("link", "preload", <<"/", "f.woff2">>, Null, Null, Null, Null),
     Element("base", "", <<"/">>, Null, Null, Null, Null) >>

RECURSIVE SortedSeq(_)
SortedSeq(S) ==
  IF S = {} THEN <<>>
  ELSE LET m == CHOOSE x \in S : \A y \in S : x <= y
       IN  <<m>> \o SortedSeq(S \ {m})

\* the pages: the elements of the catalogue chosen, in document order
DocChoices ==
  {[i \in 1..Cardinality(S) |-> ElementCatalogue[SortedSeq(S)[i]]] :
     S \in {T \in SUBSET (1..Len(ElementCatalogue)) : Cardinality(T) <= MaxElems}}

\* the resources the viewport passes captured, in insertion order
ResourceChoices ==
  { <<>>,
    << <<"https://s.com", "/", "embed">>, <<"https://s.com", "/", "embed", "/">> >>,
    << <<"https://s.com", "/", "embed", "/">>, <<"https://s.com", "/", "embed">> >>,
    << <<"https://cdn.com", "/", "a.png">>, <<"https://s.com", "/", "a.png", "?", "v=2">> >>,
    << <<"https://s.com", "/", "b.png">> >>,
    << <<"https://s.com", "/", "b.png">>, <<"https://cdn.com", "/", "b.png">> >>,
    << <<"https://s.com", "/", "b.png">>, <<"https://s.com", "/", "b.png", "?", "v=2">> >>,
    << <<"https://s.com", "/", "app.js">> >> }

\* String.prototype.trim, the white space being " "
RECURSIVE Trim(_)
Trim(s) ==
  IF s = <<>> THEN s
  ELSE IF Head(s) = " " THEN Trim(Tail(s))
  ELSE IF Last(s) = " " THEN Trim(Front(s))
  ELSE s

\* a || b on attribute values
OrElse(a, b) == IF a = Null \/ a = <<>> THEN b ELSE a

HasValue(a) == a # Null /\ a # <<>>

\* srcset.split(',') with part.trim().split(' ')[0] made absolute
SrcsetAssets(srcset) ==
  LET parts == Split(srcset, ",")
  IN  [i \in 1..Len(parts) |-> toAbsolute(url, Split(Trim(parts[i]), " ")[1])]

RECURSIVE Flatten(_)
Flatten(seqs) == IF seqs = <<>> THEN <<>> ELSE Head(seqs) \o Flatten(Tail(seqs))

\* new Set(seq): first occurrences, in insertion order
RECURSIVE SetOf(_, _)
SetOf(seq, acc) ==
  IF seq = <<>> THEN acc
  ELSE IF \E i \in 1..Len(acc) : acc[i] = Head(seq)
    THEN SetOf(Tail(seq), acc)
  ELSE SetOf(Tail(seq), Append(acc, Head(seq)))

\* what the querySelectorAll groups of extractDomAssets add for one element
DomAssetsOf(g, el) ==
  IF g = 1 /\ el.tag = "link" /\ el.rel = "stylesheet"
    THEN <<toAbsolute(url, el.href)>>
  ELSE IF g = 2 /\ el.tag = "script" /\ el.src # Null
    THEN <<toAbsolute(url, el.src)>>
  ELSE IF g = 3 /\ el.tag = "img"
    THEN <<toAbsolute(url, OrElse(el.src, el.dataSrc))>>
         \o (IF HasValue(el.srcset) THEN SrcsetAssets(el.srcset) ELSE <<>>)
  ELSE IF g = 4 /\ el.tag \in {"video", "audio", "source"}
    THEN <<toAbsolute(url, el.src)>>
  ELSE IF g = 5 /\ el.tag = "source"
    THEN (IF HasValue(el.src) THEN <<toAbsolute(url, el.src)>> ELSE <<>>)
         \o (IF HasValue(el.srcset) THEN SrcsetAssets(el.srcset) ELSE <<>>)
  ELSE IF g = 6 /\ el.tag = "link" /\ el.rel \in {"preload", "prefetch", "modulepreload"}
    THEN <<toAbsolute(url, el.href)>>
  ELSE <<>>

\* extractDomAssets(url, html).assets; the pages hold no <style> element
extractDomAssets(html) ==
  LET found == Flatten([g \in 1..6 |->
                 Flatten([i \in 1..Len(html) |-> DomAssetsOf(g, html[i])])])
  IN  SetOf(SelectSeq(found, LAMBDA a : a # Null), <<>>)

\* new Set([...domAssets, ...allResources].filter(Boolean)), and the <base>
\* elements removed from the document
MergeCandidates ==
  /\ xpc = "rendered"
  /\ combinedAssets' = SetOf(SelectSeq(extractDomAssets(baseHTML) \o allResources,
                                       LAMBDA a : a # Null /\ a # <<>>), <<>>)
  /\ doc' = SelectSeq(baseHTML, LAMBDA el : el.tag # "base")
  /\ di' = 1
  /\ xpc' = "download"
  /\ UNCHANGED <<baseHTML, allResources, responses, rewriteMap, dist, cssFiles,
                 jsFiles, otherFiles, passes>>
  /\ UNCHANGED <<exportDir, auditReport, auditVars, pruneVars, renderVars, workflowVars>>

\* a is a directory above b
IsDirPrefix(a, b) == Len(b) > Len(a) /\ SubSeq(b, 1, Len(a) + 1) = a \o <<"/">>

\* ensureDirAndWrite(filePath, buffer) does not throw: no file stands where a
\* directory of filePath has to be, no directory where the file has to be
CanWrite(files, filePath) ==
  \A q \in DOMAIN files : ~IsDirPrefix(q, filePath) /\ ~IsDirPrefix(filePath, q)

\* the try/catch body of the download loop for one candidate; ok is whether
\* download(assetUrl) resolved
DownloadStep(st, assetUrl, ok) ==
  LET outPath == localAssetPath(assetUrl)
      rel == relFromIndex(assetUrl)
      res == Served(assetUrl)
      Caught == [st EXCEPT !.rewriteMap = (assetUrl :> assetUrl) @@ @]
  IN  IF ~ok THEN Caught
      ELSE IF isLikelyImage(assetUrl) /\ res.length <= SMALL_INLINE_MAX
        THEN [st EXCEPT !.rewriteMap =
                (assetUrl :> toDataUri(res, res.contentType, "png")) @@ @]
      ELSE IF ~CanWrite(st.dist, outPath) THEN Caught
      ELSE [st EXCEPT
              !.dist = (outPath :> assetUrl) @@ @,
              !.rewriteMap = (assetUrl :> rel) @@ @,
              !.cssFiles = IF isLikelyCSS(assetUrl) THEN Append(@, outPath) ELSE @,
              !.jsFiles = IF ~isLikelyCSS(assetUrl) /\ isLikelyJS(assetUrl)
                            THEN Append(@, outPath) ELSE @,
              !.otherFiles = IF ~isLikelyCSS(assetUrl) /\ ~isLikelyJS(assetUrl)
                               THEN Append(@, outPath) ELSE @]

\* one turn of `for (const assetUrl of combinedAssets)`
DownloadOne(ok) ==
  /\ xpc = "download"
  /\ di <= Len(combinedAssets)
  /\ LET assetUrl == combinedAssets[di]
         st == DownloadStep([rewriteMap |-> rewriteMap, dist |-> dist,
                             cssFiles |-> cssFiles, jsFiles |-> jsFiles,
                             otherFiles |-> otherFiles], assetUrl, ok)
     IN  /\ rewriteMap' = st.rewriteMap
         /\ dist' = st.dist
         /\ cssFiles' = st.cssFiles
         /\ jsFiles' = st.jsFiles
         /\ otherFiles' = st.otherFiles
         /\ responses' = (assetUrl :> ok) @@ responses
  /\ di' = di + 1
  /\ UNCHANGED <<xpc, baseHTML, allResources, doc, combinedAssets, passes>>
  /\ UNCHANGED <<exportDir, auditReport, auditVars, pruneVars, renderVars, workflowVars>>

\* the loop is over
DownloadDone ==
  /\ xpc = "download"
  /\ di > Len(combinedAssets)
  /\ xpc' = "rewrite"
  /\ UNCHANGED <<baseHTML, allResources, doc, combinedAssets, di, responses,
                 rewriteMap, dist, cssFiles, jsFiles, otherFiles, passes>>
  /\ UNCHANGED <<exportDir, auditReport, auditVars, pruneVars, renderVars, workflowVars>>

rewriteTagUrlKeepsIntegrity(el, attrName, baseUrl, map) ==
  LET abs == toAbsolute(baseUrl, el[attrName])
  IN  IF abs # Null /\ abs \in DOMAIN map
        THEN [el EXCEPT ![attrName] = map[abs]]
        ELSE el

\* rewriteTagUrl(el, attrName, baseUrl, rewriteMap)
rewriteTagUrl(el, attrName, baseUrl, map) ==
  LET abs == toAbsolute(baseUrl, el[attrName])
  IN  IF abs # Null /\ abs \in DOMAIN map
        THEN LET mapped == map[abs]
                 set == [el EXCEPT ![attrName] = mapped]
             IN  IF StartsWith(mapped, <<".", "/", "assets">>)
                   THEN [set EXCEPT !.integrity = Null]
                   ELSE set
        ELSE el

\* [mapped, w].filter(Boolean).join(' ') for one part of a srcset
rewriteSrcsetPart(part, map) ==
  LET pieces == Split(Trim(part), " ")
      u == pieces[1]
      w == IF Len(pieces) >= 2 THEN pieces[2] ELSE <<>>
      a == toAbsolute(url, u)
      mapped == IF a # Null /\ a \in DOMAIN map THEN map[a] ELSE u
  IN  Join(SelectSeq(<<mapped, w>>, LAMBDA x : x # <<>>), <<" ">>)

\* srcset.split(',').map(...).join(', ')
rewriteSrcset(el, map) ==
  IF HasValue(el.srcset)
    THEN LET parts == Split(el.srcset, ",")
         IN  [el EXCEPT !.srcset =
                Join([i \in 1..Len(parts) |-> rewriteSrcsetPart(parts[i], map)],
                     <<",", " ">>)]
    ELSE el

\* what the four querySelectorAll loops of the rewrite pass do to one element
rewriteElement(el, map) ==
  IF el.tag = "link" /\ el.rel \in {"stylesheet", "preload", "modulepreload", "prefetch"}
    THEN rewriteTagUrl(el, "href", url, map)
  ELSE IF el.tag = "script" /\ el.src # Null
    THEN rewriteTagUrl(el, "src", url, map)
  ELSE IF el.tag = "img"
    THEN LET abs == toAbsolute(url, OrElse(el.src, el.dataSrc))
             withSrc == IF abs # Null /\ abs \in DOMAIN map
                          THEN [el EXCEPT !.src = map[abs]] ELSE el
         IN  rewriteSrcset(withSrc, map)
  ELSE IF el.tag \in {"video", "audio", "source"}
    THEN rewriteSrcset(rewriteTagUrl(el, "src", url, map), map)
  ELSE el

rewriteDocument(d, map) == [i \in 1..Len(d) |-> rewriteElement(d[i], map)]

\* the rewrite pass of main(), and its application once more to the document
\* it has rewritten
RewritePass ==
  /\ xpc = "rewrite"
  /\ passes < MaxPasses
  /\ doc' = rewriteDocument(doc, rewriteMap)
  /\ passes' = passes + 1
  /\ UNCHANGED <<xpc, baseHTML, allResources, combinedAssets, di, responses,
                 rewriteMap, dist, cssFiles, jsFiles, otherFiles>>
  /\ UNCHANGED <<exportDir, auditReport, auditVars, pruneVars, renderVars, workflowVars>>

\* path.join(ASSETS_DIR, 'app.bundle.js')
BundlePath == ASSETS_DIR \o <<"/", "app.bundle.js">>

\* main(): the JS bundling of balanced mode, then the final HTML is written.
\* mode is MODE; ok is whether the bundle could be written (a failure is
\* caught and the script tags stay).  A file's content is named by the url it
\* was fetched from; the bundle is the files of jsFiles, each under a header.
Bundle(mode, ok) ==
  /\ xpc = "rewrite"
  /\ passes >= 1
  /\ xpc' = "written"
  /\ IF mode = "balanced" /\ jsFiles # <<>> /\ ok
       THEN /\ dist' = (BundlePath :>
                          Flatten([i \in 1..Len(jsFiles) |->
                                     <<"// ===", Last(jsFiles[i]), "===">>
                                       \o dist[jsFiles[i]] \o <<"\n">>])) @@ dist
            /\ doc' = Append(SelectSeq(doc, LAMBDA el : ~(el.tag = "script" /\ el.src # Null)),
                             Element("script", "", Null,
                                     <<".", "/", "assets", "/", "app.bundle.js">>,
                                     Null, Null, Null))
       ELSE UNCHANGED <<dist, doc>>
  /\ UNCHANGED <<baseHTML, allResources, combinedAssets, di, responses,
                 rewriteMap, cssFiles, jsFiles, otherFiles, passes>>
  /\ UNCHANGED <<exportDir, auditReport, auditVars, pruneVars, renderVars, workflowVars>>

\* no render is going on
RenderIdle ==
  /\ rpc = "off"
  /\ vp = 1
  /\ si = 1
  /\ pages = {}
  /\ reqUrls = <<>>
  /\ pageMarkup = <<>>
  /\ results = <<>>
  /\ consoleLog = {}
  /\ exportError = ""
  /\ faults = 0
  /\ hpc = "off"
  /\ scroller = "exporter"
  /\ total = 0
  /\ remaining = 0
  /\ inflight = 0
  /\ timerId = FALSE
  /\ tId = FALSE
  /\ listeners = {}
  /\ observedOpen = 0
  /\ earlierOpen = 0

\* AutoExporter.run() does not run
WorkflowIdle ==
  /\ wpc = "off"
  /\ finalDir = <<>>
  /\ pageName = <<>>

\* the exporter does not run
ExporterIdle ==
  /\ xpc = "off"
  /\ baseHTML = <<>>
  /\ allResources = <<>>
  /\ doc = <<>>
  /\ combinedAssets = <<>>
  /\ di = 1
  /\ responses = <<>>
  /\ rewriteMap = <<>>
  /\ dist = <<>>
  /\ cssFiles = <<>>
  /\ jsFiles = <<>>
  /\ otherFiles = <<>>
  /\ passes = 0

\* main() after renderMultiViewport: the base markup and the resources are in
InitExport ==
  /\ xpc = "rendered"
  /\ baseHTML \in DocChoices
  /\ allResources \in ResourceChoices
  /\ doc = <<>>
  /\ combinedAssets = <<>>
  /\ di = 1
  /\ responses = <<>>
  /\ rewriteMap = <<>>
  /\ dist = <<>>
  /\ cssFiles = <<>>
  /\ jsFiles = <<>>
  /\ otherFiles = <<>>
  /\ passes = 0
  /\ exportDir = EmptyDir
  /\ AuditInit
  /\ PruneInit
  /\ WorkflowIdle
  /\ RenderIdle

NextExport ==
  \/ MergeCandidates
  \/ \E ok \in BOOLEAN : DownloadOne(ok)
  \/ DownloadDone
  \/ RewritePass
  \/ \E mode \in {"safe", "balanced"} : \E ok \in BOOLEAN : Bundle(mode, ok)

(***************************************************************************)
(* exporter_v2.js: renderMultiViewport, renderAndCollect, openCommonUI and *)
(* the collection of their results by main().                              *)
(***************************************************************************)
\* Object.entries(BREAKPOINTS), by name
BREAKPOINTS == <<"xs", "sm", "md", "lg", "xl">>

\* the selectors openCommonUI clicks through
selectors ==
  <<"[aria-controls]", ".accordion [role=button]", ".tabs [role=tab]",
    ".x-accordion .x-accordion-toggle", ".x-tab", ".x-toggle",
    ".x-nav-tabs [role=tab]">>

\* the markup page.content() gives when the context is destroyed: no element
PlaceholderHtml == <<>>

\* what the page serves at each viewport: its markup, the requests the page
\* makes, the entries of the Performance API
PageHtml(k) == <<ElementCatalogue[k]>>

PageRequests(k) == {<<"https://s.com", "/", BREAKPOINTS[k], "/", "b.png">>}

PerfResources(k) == << <<"https://s.com", "/", "s.css">> >>

\* a page that stays open when its pass is over
ClosePageSkipped(open, p) == open

\* page.close() in the finally of renderAndCollect
ClosePage(open, p) == open \ {p}

\* const page = await browser.newPage({ viewport: size }); reqUrls = new Set()
NewPage ==
  /\ xpc = "rendering"
  /\ rpc = "start"
  /\ pages' = pages \cup {vp}
  /\ reqUrls' = (vp :> <<>>) @@ reqUrls
  /\ rpc' = "goto"
  /\ UNCHANGED <<vp, si, pageMarkup, results, consoleLog, exportError, faults>>
  /\ UNCHANGED <<hpc, scroller, total, remaining, inflight, timerId, tId, listeners, observedOpen, earlierOpen>>
  /\ UNCHANGED <<exportDir, auditReport, auditVars, pruneVars, exporterVars, workflowVars>>

\* page.goto resolves; the waits after it only log
GotoOk ==
  /\ rpc = "goto"
  /\ rpc' = "loaded"
  /\ UNCHANGED <<vp, si, pages, reqUrls, pageMarkup, results, consoleLog, exportError, faults>>
  /\ UNCHANGED <<hpc, scroller, total, remaining, inflight, timerId, tId, listeners, observedOpen, earlierOpen>>
  /\ UNCHANGED <<exportDir, auditReport, auditVars, pruneVars, exporterVars, workflowVars>>

\* page.goto throws: the finally closes the page, nothing catches the error
\* in renderAndCollect, renderMultiViewport or main, main().catch exits
GotoFail ==
  /\ rpc = "goto"
  /\ faults < MaxFaults
  /\ faults' = faults + 1
  /\ pages' = ClosePage(pages, vp)
  /\ exportError' = "page.goto"
  /\ rpc' = "aborted"
  /\ UNCHANGED <<vp, si, reqUrls, pageMarkup, results, consoleLog>>
  /\ UNCHANGED <<hpc, scroller, total, remaining, inflight, timerId, tId, listeners, observedOpen, earlierOpen>>
  /\ UNCHANGED <<exportDir, auditReport, auditVars, pruneVars, exporterVars, workflowVars>>

\* page.on('requestfinished'): the handler of the page of viewport p adds
\* the url to the reqUrls of that call
OnRequestFinished(p, u) ==
  /\ rpc \in {"loaded", "idle"}
  /\ p \in pages
  /\ u \in PageRequests(p)
  /\ reqUrls' = [reqUrls EXCEPT ![p] = SetOf(<<u>>, @)]
  /\ reqUrls' # reqUrls
  /\ UNCHANGED <<rpc, vp, si, pages, pageMarkup, results, consoleLog, exportError, faults>>
  /\ UNCHANGED <<hpc, scroller, total, remaining, inflight, timerId, tId, listeners, observedOpen, earlierOpen>>
  /\ UNCHANGED <<exportDir, auditReport, auditVars, pruneVars, exporterVars, workflowVars>>

\* openCommonUI: the page is open, the details are expanded; a destroyed
\* context makes openCommonUI return, any other error is swallowed
ExpandDetails(outcome) ==
  /\ rpc = "loaded"
  /\ outcome # "ok" => faults < MaxFaults
  /\ faults' = IF outcome = "ok" THEN faults ELSE faults + 1
  /\ rpc' = IF outcome = "destroyed" THEN "scroll" ELSE "selectors"
  /\ si' = 1
  /\ UNCHANGED <<vp, pages, reqUrls, pageMarkup, results, consoleLog, exportError>>
  /\ UNCHANGED <<hpc, scroller, total, remaining, inflight, timerId, tId, listeners, observedOpen, earlierOpen>>
  /\ UNCHANGED <<exportDir, auditReport, auditVars, pruneVars, exporterVars, workflowVars>>

\* a click whose destroyed context is not caught
AfterClickThrows(outcome) == IF outcome = "destroyed" THEN "throw" ELSE "next"

\* where openCommonUI goes after the click on the handles of one selector:
\* it returns on a destroyed context, any other click error is ignored
AfterClick(outcome) == IF outcome = "destroyed" THEN "return" ELSE "next"

\* one turn of `for (const sel of selectors)`: the handles found are clicked
ClickSelector(outcome) ==
  /\ rpc = "selectors"
  /\ si <= Len(selectors)
  /\ outcome = "destroyed" => faults < MaxFaults
  /\ faults' = IF outcome = "destroyed" THEN faults + 1 ELSE faults
  /\ LET to == AfterClick(outcome)
     IN  /\ si' = IF to = "next" THEN si + 1 ELSE si
         /\ rpc' = IF to = "next" THEN "selectors"
                   ELSE IF to = "return" THEN "scroll" ELSE "aborted"
         /\ consoleLog' = IF to = "return"
                            THEN consoleLog \cup
                                   {<<BREAKPOINTS[vp], "Click interrupted by navigation">>}
                            ELSE consoleLog
         /\ pages' = IF to = "throw" THEN ClosePage(pages, vp) ELSE pages
         /\ exportError' = IF to = "throw" THEN "Execution context was destroyed"
                           ELSE exportError
  /\ UNCHANGED <<vp, reqUrls, pageMarkup, results>>
  /\ UNCHANGED <<hpc, scroller, total, remaining, inflight, timerId, tId, listeners, observedOpen, earlierOpen>>
  /\ UNCHANGED <<exportDir, auditReport, auditVars, pruneVars, exporterVars, workflowVars>>

\* the selectors are done, openCommonUI returns
SelectorsDone ==
  /\ rpc = "selectors"
  /\ si > Len(selectors)
  /\ rpc' = "scroll"
  /\ UNCHANGED <<vp, si, pages, reqUrls, pageMarkup, results, consoleLog, exportError, faults>>
  /\ UNCHANGED <<hpc, scroller, total, remaining, inflight, timerId, tId, listeners, observedOpen, earlierOpen>>
  /\ UNCHANGED <<exportDir, auditReport, auditVars, pruneVars, exporterVars, workflowVars>>

\* autoScroll(page): every error is caught and logged
AutoScroll ==
  /\ rpc = "scroll"
  /\ rpc' = "fonts"
  /\ UNCHANGED <<vp, si, pages, reqUrls, pageMarkup, results, consoleLog, exportError, faults>>
  /\ UNCHANGED <<hpc, scroller, total, remaining, inflight, timerId, tId, listeners, observedOpen, earlierOpen>>
  /\ UNCHANGED <<exportDir, auditReport, auditVars, pruneVars, exporterVars, workflowVars>>

\* document.fonts.ready: every error is caught
FontsReady ==
  /\ rpc = "fonts"
  /\ rpc' = "idle"
  /\ UNCHANGED <<vp, si, pages, reqUrls, pageMarkup, results, consoleLog, exportError, faults>>
  /\ UNCHANGED <<hpc, scroller, total, remaining, inflight, timerId, tId, listeners, observedOpen, earlierOpen>>
  /\ UNCHANGED <<exportDir, auditReport, auditVars, pruneVars, exporterVars, workflowVars>>

\* html = await page.content(): the placeholder when the context is
\* destroyed, any other error is thrown again and ends the run
PageContent(outcome) ==
  /\ rpc = "idle"
  /\ outcome # "ok" => faults < MaxFaults
  /\ faults' = IF outcome = "ok" THEN faults ELSE faults + 1
  /\ pageMarkup' = IF outcome = "ok" THEN PageHtml(vp) ELSE PlaceholderHtml
  /\ rpc' = IF outcome = "error" THEN "aborted" ELSE "perf"
  /\ pages' = IF outcome = "error" THEN ClosePage(pages, vp) ELSE pages
  /\ exportError' = IF outcome = "error" THEN "page.content" ELSE exportError
  /\ UNCHANGED <<vp, si, reqUrls, results, consoleLog>>
  /\ UNCHANGED <<hpc, scroller, total, remaining, inflight, timerId, tId, listeners, observedOpen, earlierOpen>>
  /\ UNCHANGED <<exportDir, auditReport, auditVars, pruneVars, exporterVars, workflowVars>>

\* perfResources, allResources, return { html, resources }, page.close() in
\* the finally, results.push in renderMultiViewport
CollectAndClose(perfOk) ==
  /\ rpc = "perf"
  /\ ~perfOk => faults < MaxFaults
  /\ faults' = IF perfOk THEN faults ELSE faults + 1
  /\ LET perfResources == IF perfOk THEN PerfResources(vp) ELSE <<>>
     IN  results' = Append(results,
                      [name |-> BREAKPOINTS[vp], html |-> pageMarkup,
                       resources |-> SetOf(perfResources \o reqUrls[vp], <<>>)])
  /\ pages' = ClosePage(pages, vp)
  /\ rpc' = "delay"
  /\ UNCHANGED <<vp, si, reqUrls, pageMarkup, consoleLog, exportError>>
  /\ UNCHANGED <<hpc, scroller, total, remaining, inflight, timerId, tId, listeners, observedOpen, earlierOpen>>
  /\ UNCHANGED <<exportDir, auditReport, auditVars, pruneVars, exporterVars, workflowVars>>

\* the 500 ms between two renders, then the next breakpoint
NextViewport ==
  /\ rpc = "delay"
  /\ vp' = vp + 1
  /\ rpc' = IF vp = Len(BREAKPOINTS) THEN "returned" ELSE "start"
  /\ UNCHANGED <<si, pages, reqUrls, pageMarkup, results, consoleLog, exportError, faults>>
  /\ UNCHANGED <<hpc, scroller, total, remaining, inflight, timerId, tId, listeners, observedOpen, earlierOpen>>
  /\ UNCHANGED <<exportDir, auditReport, auditVars, pruneVars, exporterVars, workflowVars>>

\* viewportResults.find(r => r.name === 'xl') || the last result
baseResultFirst(viewportResults) == viewportResults[1]

baseResult(viewportResults) ==
  IF \E i \in 1..Len(viewportResults) : viewportResults[i].name = "xl"
    THEN viewportResults[CHOOSE i \in 1..Len(viewportResults) :
                           /\ viewportResults[i].name = "xl"
                           /\ \A j \in 1..(i - 1) : viewportResults[j].name # "xl"]
    ELSE viewportResults[Len(viewportResults)]

\* main(): the base markup and the resources of all the viewports
CollectResults ==
  /\ xpc = "rendering"
  /\ rpc = "returned"
  /\ baseHTML' = baseResult(results).html
  /\ allResources' = SetOf(Flatten([i \in 1..Len(results) |-> results[i].resources]),
                           <<>>)
  /\ xpc' = "rendered"
  /\ rpc' = "off"
  /\ UNCHANGED <<doc, combinedAssets, di, responses, rewriteMap, dist, cssFiles,
                 jsFiles, otherFiles, passes>>
  /\ UNCHANGED <<vp, si, pages, reqUrls, pageMarkup, results, consoleLog, exportError, faults>>
  /\ UNCHANGED <<hpc, scroller, total, remaining, inflight, timerId, tId, listeners, observedOpen, earlierOpen>>
  /\ UNCHANGED <<exportDir, auditReport, auditVars, pruneVars, workflowVars>>

\* main() after chromium.launch()
InitRender ==
  /\ xpc = "rendering"
  /\ rpc = "start"
  /\ vp = 1
  /\ si = 1
  /\ pages = {}
  /\ reqUrls = <<>>
  /\ pageMarkup = <<>>
  /\ results = <<>>
  /\ consoleLog = {}
  /\ exportError = ""
  /\ faults = 0
  /\ hpc = "off"
  /\ scroller = "exporter"
  /\ total = 0
  /\ remaining = 0
  /\ inflight = 0
  /\ timerId = FALSE
  /\ tId = FALSE
  /\ listeners = {}
  /\ observedOpen = 0
  /\ earlierOpen = 0
  /\ baseHTML = <<>>
  /\ allResources = <<>>
  /\ doc = <<>>
  /\ combinedAssets = <<>>
  /\ di = 1
  /\ responses = <<>>
  /\ rewriteMap = <<>>
  /\ dist = <<>>
  /\ cssFiles = <<>>
  /\ jsFiles = <<>>
  /\ otherFiles = <<>>
  /\ passes = 0
  /\ exportDir = EmptyDir
  /\ AuditInit
  /\ PruneInit
  /\ WorkflowIdle

NextRender ==
  \/ NewPage
  \/ GotoOk
  \/ GotoFail
  \/ \E p \in 1..Len(BREAKPOINTS) : \E u \in PageRequests(p) : OnRequestFinished(p, u)
  \/ \E o \in {"ok", "destroyed", "error"} : ExpandDetails(o)
  \/ \E o \in {"none", "clicked", "error", "destroyed"} : ClickSelector(o)
  \/ SelectorsDone
  \/ AutoScroll
  \/ FontsReady
  \/ \E o \in {"ok", "destroyed", "error"} : PageContent(o)
  \/ \E ok \in BOOLEAN : CollectAndClose(ok)
  \/ NextViewport
  \/ CollectResults
  \/ MergeCandidates

(***************************************************************************)
(* AutoExporter.run(): export, audit, cleanup, final output, final         *)
(* verification, then cleanup() of the temporary directories.  Each step   *)
(* is awaited before the next begins; the exporter and the auditor run as  *)
(* child processes through runCommand.                                     *)
(***************************************************************************)
\* what step1_Export leaves in temp_export: dist/ of an exporter that ended
\* with code 0, which has written its entry document
\* the urls auto-export.js is started with
SourceUrls ==
  { <<"https://s.com", "/">>,
    <<"https://s.com", "/", "blog", "/", "post", "/">>,
    <<"https://s.com", "/", "temp_export">>,
    <<"https://s.com", "/", "audit", "/">>,
    <<"https://s.com", "/", "backup_unused">> }

\* extractPageName(url): the pathname without the slashes at its ends, the
\* hostname when that is empty; every character that is no letter, digit, '-'
\* or '_' becomes '-', runs of '-' become one, those at the ends are dropped.
\* The tokens of a url are "/", "." and words of letters, digits, '-' and '_'.
extractPageName(sourceUrl) ==
  LET hostname == IF sourceUrl[1] = "https://s.com" THEN <<"s", ".", "com">>
                  ELSE <<"cdn", ".", "com">>
      path == Pathname(sourceUrl)
      name == IF \A i \in 1..Len(path) : path[i] = "/" THEN hostname ELSE path
      dashed == [i \in 1..Len(name) |-> IF name[i] \in {"/", "."} THEN "-" ELSE name[i]]
      keep == {i \in 1..Len(dashed) :
                 \/ dashed[i] # "-"
                 \/ /\ i > 1
                    /\ dashed[i - 1] # "-"
                    /\ \E j \in 1..(i - 1) : dashed[j] # "-"
                    /\ \E j \in (i + 1)..Len(dashed) : dashed[j] # "-"}
      pageNameOut == [k \in 1..Cardinality(keep) |-> dashed[SortedSeq(keep)[k]]]
  IN  IF pageNameOut = <<>> THEN <<"exported-page">> ELSE pageNameOut

ExportedMirrors == {m \in MirrorChoices : entry_html \in DOMAIN m}

\* an audit/audit-report.json left in the workspace by an earlier run
StaleReport ==
  LET old == <<[path |-> APng, size |-> 4096, sizeKB |-> 4, extension |-> ".png"],
               [path |-> BPng, size |-> 512, sizeKB |-> 1, extension |-> ".png"]>>
  IN  ReportOf(old, {}, old)

\* the directory is kept: whatever report was in it is still there
AuditDirKept(report) == report

\* step2_Audit: await fs.remove(this.auditDir)
RemoveAuditDir(report) == NoReport

\* export-info.json written by step4_CreateFinalOutput
ExportInfo == [path |-> <<"export-info.json">>, size |-> 256]

\* run(): the catch block calls cleanup() and ends the process with code 1
RunCatch ==
  /\ \/ wpc = "step1"
     \/ wpc = "step3" /\ ppc = "failed"
  /\ wpc' = "failed"
  /\ exportDir' = EmptyDir
  /\ backupDir' = EmptyDir
  /\ UNCHANGED <<engine, ppc, unusedList, idx, deleted, runs, finalDir, pageName>>
  /\ UNCHANGED <<auditReport, auditVars, exporterVars, renderVars>>

\* step1_Export: the exporter ended with code 0 and dist/ was moved to temp_export
Step1_Export ==
  /\ wpc = "step1"
  /\ exportDir' \in ExportedMirrors
  /\ wpc' = "step2"
  /\ UNCHANGED <<finalDir, pageName>>
  /\ UNCHANGED <<auditReport, auditVars, pruneVars, exporterVars, renderVars>>

\* step2_Audit, up to the spawn of post-export-auditor.js
Step2_Audit ==
  /\ wpc = "step2"
  /\ auditReport' = RemoveAuditDir(auditReport)
  /\ apc' = "inventory"
  /\ wpc' = "audit"
  /\ UNCHANGED <<fileInventory, staticAssets, networkLog, runtimeAssets,
                 usedFiles, unusedFiles, server, pageOpen, finalDir, pageName>>
  /\ UNCHANGED <<exportDir, pruneVars, exporterVars, renderVars>>

\* runCommand resolves: the auditor has closed with code 0
Step2_Resolved ==
  /\ wpc = "audit"
  /\ apc = "exited"
  /\ wpc' = "step3"
  /\ UNCHANGED <<finalDir, pageName>>
  /\ UNCHANGED <<exportDir, auditReport, auditVars, pruneVars, exporterVars, renderVars>>

\* step4_CreateFinalOutput: fs.remove(this.finalDir), then the pruned mirror
\* is copied and export-info.json added.  this.finalDir is the directory named
\* pageName in the workspace, where temp_export, audit and backup_unused lie
\* too: removing it removes the directory of that name.  fs.copy rejects when
\* temp_export is gone, and the catch block of run() cleans up.
\* this.pageName is set by the constructor and is first read here; the url
\* the workflow was started with is drawn here, where its name is first used.
Step4_CreateFinalOutput(sourceUrl) ==
  /\ wpc = "step3"
  /\ ppc = "done"
  /\ pageName' = extractPageName(sourceUrl)
  /\ IF pageName' = <<"temp_export">>
       THEN /\ exportDir' = EmptyDir
            /\ backupDir' = EmptyDir
            /\ finalDir' = <<>>
            /\ wpc' = "failed"
            /\ UNCHANGED auditReport
       ELSE /\ finalDir' = CopyInto(exportDir, ExportInfo.path, ExportInfo.size)
            /\ wpc' = "step5"
            /\ auditReport' = IF pageName' = <<"audit">> THEN NoReport ELSE auditReport
            /\ backupDir' = IF pageName' = <<"backup_unused">> THEN EmptyDir ELSE backupDir
            /\ UNCHANGED exportDir
  /\ UNCHANGED <<engine, ppc, unusedList, idx, deleted, runs>>
  /\ UNCHANGED <<auditVars, exporterVars, renderVars>>

\* step5_FinalVerification: the auditor runs against finalDir and, unless it
\* fails, writes its report; which files it finds used depends on the page
Step5_FinalVerification(ok, used) ==
  /\ wpc = "step5"
  /\ used \subseteq DOMAIN finalDir
  /\ LET inv == [i \in 1..Cardinality(DOMAIN finalDir) |->
                   LET p == WalkDir(DOMAIN finalDir)[i]
                   IN  [path |-> p, size |-> finalDir[p], extension |-> ExtName(p)]]
     IN  auditReport' = IF ok THEN ReportOf(inv, used, SortBySize(UnusedOf(inv, used)))
                        ELSE auditReport
  /\ wpc' = "cleanup"
  /\ UNCHANGED <<finalDir, pageName>>
  /\ UNCHANGED <<exportDir, auditVars, pruneVars, exporterVars, renderVars>>

\* cleanup(): temp_export and backup_unused are removed
RunCleanup ==
  /\ wpc = "cleanup"
  /\ exportDir' = EmptyDir
  /\ backupDir' = EmptyDir
  /\ finalDir' = IF pageName = <<"backup_unused">> THEN <<>> ELSE finalDir
  /\ wpc' = "finished"
  /\ UNCHANGED <<engine, ppc, unusedList, idx, deleted, runs, pageName>>
  /\ UNCHANGED <<auditReport, auditVars, exporterVars, renderVars>>

\* new AutoExporter(sourceUrl).run() in a workspace that may hold an old report
InitAuto ==
  /\ wpc = "step1"
  /\ finalDir = <<>>
  /\ pageName = <<>>
  /\ exportDir = EmptyDir
  /\ auditReport \in {NoReport, StaleReport}
  /\ apc = "off"
  /\ server = "null"
  /\ pageOpen = FALSE
  /\ fileInventory = <<>>
  /\ staticAssets = <<>>
  /\ networkLog = <<>>
  /\ runtimeAssets = {}
  /\ usedFiles = {}
  /\ unusedFiles = <<>>
  /\ PruneInit
  /\ ExporterIdle
  /\ RenderIdle

NextAuto ==
  \/ Step1_Export
  \/ RunCatch
  \/ Step2_Audit
  \/ InventoryFiles
  \/ LaunchFails
  \/ \E r \in RefCatalogue : ExtractRef(r)
  \/ StaticDone
  \/ \E u \in RequestCatalogue : OnRequest(u)
  \/ AuditNewPage
  \/ AuditClosePage
  \/ RuntimeDone
  \/ GenerateReports
  \/ \E written \in BOOLEAN : ReportWriteFails(written)
  \/ AuditExit
  \/ Step2_Resolved
  \/ Step3Begin
  \/ Step3Loop
  \/ Step3Copy
  \/ Step3Remove
  \/ Step3End
  \/ \E sourceUrl \in SourceUrls : Step4_CreateFinalOutput(sourceUrl)
  \/ \E ok \in BOOLEAN : \E used \in SUBSET {entry_html, APng, BPng} :
       Step5_FinalVerification(ok, used)
  \/ RunCleanup

(***************************************************************************)
(* An audit of a mirror whose entry document has one img with src and      *)
(* srcset and one stylesheet, the stylesheet one url(), and whose page     *)
(* requests a script no markup names.                                      *)
(***************************************************************************)
\* what extractFromHTML and extractCSSUrls meet in the mirror dir, whose
\* stylesheet is named as it lies under the root
ScenarioRefs(dir) ==
  LET css == CHOOSE p \in DOMAIN dir : Last(p) = "s.css"
  IN  { [url |-> APng, type |-> "image", source |-> "html"],
        [url |-> APng, type |-> "image", source |-> "html-srcset"],
        [url |-> BPng, type |-> "image", source |-> "html-srcset"],
        [url |-> css, type |-> "css", source |-> "html"],
        [url |-> <<"c.woff2">>, type |-> "font",
         source |-> IF Len(css) = 1 THEN "s.css" ELSE "assets/s.css"] }

\* the mirror: the stylesheet and its font lie in the root or under assets/
InitScenario ==
  /\ exportDir \in
       {[p \in {entry_html, APng, BPng, dir \o <<"s.css">>, dir \o <<"c.woff2">>,
                <<"d.js">>, <<"e.png">>} |->
           IF p = entry_html THEN 2048
           ELSE IF Last(p) = "c.woff2" THEN 4096
           ELSE IF Last(p) = "e.png" THEN size
           ELSE 512] : dir \in {<<>>, <<"assets", "/">>}, size \in {0, 1024}}
  /\ AuditInit
  /\ PruneInit
  /\ ExporterIdle
  /\ RenderIdle
  /\ WorkflowIdle

NextScenario ==
  \/ InventoryFiles
  \/ \E r \in ScenarioRefs(exportDir) : ExtractRef(r)
  \/ StaticDone
  \/ LaunchFails
  \/ \E u \in {<<ServerOrigin, "/">>, <<ServerOrigin, "/", "d.js">>} : OnRequest(u)
  \/ AuditNewPage
  \/ AuditClosePage
  \/ RuntimeDone
  \/ GenerateReports
  \/ \E written \in BOOLEAN : ReportWriteFails(written)
  \/ AuditExit

(***************************************************************************)
(* What runs in one page: the auto-scroll of the exporter, of                *)
(* StaticExportAuditor and of PostExportAuditor, and, in the exporter,     *)
(* waitForNetworkIdle after it.  A timer that is pending fires as a step   *)
(* of its own; the code after `await idle` runs with the step that         *)
(* fulfils the promise, before any other event is handled.                 *)
(***************************************************************************)
\* autoScroll of exporter_v2.js: `total > 30`
ScrollCap == 30

\* DEFAULT_CONFIG.max_scroll_depth of post-export-auditor.js
max_scroll_depth == 4

\* one step of the scroll; grow is by how much the page gets longer when it
\* is scrolled (lazy content), in scroll steps.  exporter: step(); static: the setInterval callback of
\* StaticExportAuditor.autoScroll, remaining being scrollHeight - totalHeight;
\* post: one turn of the for loop of performAutoScroll
ScrollStep(grow) ==
  /\ hpc = "scroll"
  /\ remaining - 1 + grow <= MaxRemaining
  /\ IF scroller = "exporter"
       THEN IF remaining = 0 \/ total > ScrollCap
              THEN hpc' = "scrolled" /\ UNCHANGED <<total, remaining>>
              ELSE /\ remaining' = remaining - 1 + grow
                   /\ total' = total + 1
                   /\ hpc' = "scroll"
     ELSE IF scroller = "static"
       THEN IF remaining - 1 + grow <= 0
              THEN hpc' = "scrolled" /\ remaining' = 0 /\ UNCHANGED total
              ELSE hpc' = "scroll" /\ remaining' = remaining - 1 + grow /\ UNCHANGED total
     ELSE IF total < max_scroll_depth
       THEN /\ total' = total + 1
            /\ remaining' = IF remaining - 1 + grow < 0 THEN 0 ELSE remaining - 1 + grow
            /\ hpc' = "scroll"
       ELSE hpc' = "scrolled" /\ UNCHANGED <<total, remaining>>
  /\ UNCHANGED <<scroller, inflight, timerId, tId, listeners, observedOpen, earlierOpen>>
  /\ UNCHANGED <<rpc, vp, si, pages, reqUrls, pageMarkup, results, consoleLog, exportError, faults>>
  /\ UNCHANGED <<exportDir, auditReport, auditVars, pruneVars, exporterVars, workflowVars>>

\* waitForNetworkIdle up to `await idle`: the listeners are on, the ceiling
\* timer is set, and the kick sets the idle timer since inflight is 0.
\* Requests of the page may be in flight already.
WaitStart ==
  /\ hpc = "scrolled"
  /\ scroller = "exporter"
  /\ inflight' = 0
  /\ listeners' = {"request", "requestfinished", "requestfailed"}
  /\ tId' = TRUE
  /\ timerId' = TRUE
  /\ observedOpen' = 0
  /\ earlierOpen' \in 0..MaxInflight
  /\ hpc' = "wait"
  /\ UNCHANGED <<scroller, total, remaining>>
  /\ UNCHANGED <<rpc, vp, si, pages, reqUrls, pageMarkup, results, consoleLog, exportError, faults>>
  /\ UNCHANGED <<exportDir, auditReport, auditVars, pruneVars, exporterVars, workflowVars>>

\* const onReq = () => inflight++
onReq ==
  /\ "request" \in listeners
  /\ observedOpen + earlierOpen < MaxInflight
  /\ inflight' = inflight + 1
  /\ observedOpen' = observedOpen + 1
  /\ UNCHANGED <<hpc, scroller, total, remaining, timerId, tId, listeners, earlierOpen>>
  /\ UNCHANGED <<rpc, vp, si, pages, reqUrls, pageMarkup, results, consoleLog, exportError, faults>>
  /\ UNCHANGED <<exportDir, auditReport, auditVars, pruneVars, exporterVars, workflowVars>>

\* the counter goes below zero when a request that began earlier ends
onDoneUnclamped(kind) ==
  /\ "requestfinished" \in listeners
  /\ IF kind = "observed"
       THEN observedOpen > 0 /\ observedOpen' = observedOpen - 1 /\ UNCHANGED earlierOpen
       ELSE earlierOpen > 0 /\ earlierOpen' = earlierOpen - 1 /\ UNCHANGED observedOpen
  /\ inflight' = inflight - 1
  /\ timerId' = IF inflight' = 0 THEN TRUE ELSE timerId
  /\ UNCHANGED <<hpc, scroller, total, remaining, tId, listeners>>
  /\ UNCHANGED <<rpc, vp, si, pages, reqUrls, pageMarkup, results, consoleLog, exportError, faults>>
  /\ UNCHANGED <<exportDir, auditReport, auditVars, pruneVars, exporterVars, workflowVars>>

\* onDone, for requestfinished and requestfailed: a request of the page ends,
\* one the wait saw begin or one that began earlier
onDone(kind) ==
  /\ "requestfinished" \in listeners
  /\ IF kind = "observed"
       THEN observedOpen > 0 /\ observedOpen' = observedOpen - 1 /\ UNCHANGED earlierOpen
       ELSE earlierOpen > 0 /\ earlierOpen' = earlierOpen - 1 /\ UNCHANGED observedOpen
  /\ inflight' = IF inflight - 1 < 0 THEN 0 ELSE inflight - 1
  /\ timerId' = IF inflight' = 0 THEN TRUE ELSE timerId
  /\ UNCHANGED <<hpc, scroller, total, remaining, tId, listeners>>
  /\ UNCHANGED <<rpc, vp, si, pages, reqUrls, pageMarkup, results, consoleLog, exportError, faults>>
  /\ UNCHANGED <<exportDir, auditReport, auditVars, pruneVars, exporterVars, workflowVars>>

\* the idle timer or the ceiling timer fires and calls fulfill; when the wait
\* is pending, `await idle` goes on: clearTimeout(t) and the three page.off.
\* The idle timer is never cleared and may fire after the wait is over.
TimerFires(which) ==
  /\ hpc \in {"wait", "done"}
  /\ IF which = "idle" THEN timerId ELSE tId
  /\ timerId' = IF which = "idle" THEN FALSE ELSE timerId
  /\ tId' = FALSE
  /\ listeners' = {}
  /\ hpc' = "done"
  /\ UNCHANGED <<scroller, total, remaining, inflight, observedOpen, earlierOpen>>
  /\ UNCHANGED <<rpc, vp, si, pages, reqUrls, pageMarkup, results, consoleLog, exportError, faults>>
  /\ UNCHANGED <<exportDir, auditReport, auditVars, pruneVars, exporterVars, workflowVars>>

\* a page about to be scrolled
InitPage ==
  /\ hpc = "scroll"
  /\ scroller \in {"exporter", "static", "post"}
  /\ total = 0
  /\ remaining \in 0..MaxRemaining
  /\ inflight = 0
  /\ timerId = FALSE
  /\ tId = FALSE
  /\ listeners = {}
  /\ observedOpen = 0
  /\ earlierOpen = 0
  /\ rpc = "off"
  /\ vp = 1
  /\ si = 1
  /\ pages = {}
  /\ reqUrls = <<>>
  /\ pageMarkup = <<>>
  /\ results = <<>>
  /\ consoleLog = {}
  /\ exportError = ""
  /\ faults = 0
  /\ exportDir = EmptyDir
  /\ AuditInit
  /\ PruneInit
  /\ ExporterIdle
  /\ WorkflowIdle

NextPage ==
  \/ \E grow \in 0..2 : ScrollStep(grow)
  \/ WaitStart
  \/ onReq
  \/ \E kind \in {"observed", "earlier"} : onDone(kind)
  \/ \E which \in {"idle", "ceiling"} : TimerFires(which)

vars == <<exportDir, auditReport, auditVars, pruneVars, exporterVars, renderVars,
          workflowVars>>

Init ==
  /\ exportDir \in MirrorChoices
  /\ AuditInit
  /\ PruneInit
  /\ ExporterIdle
  /\ RenderIdle
  /\ WorkflowIdle

Next ==
  \/ InventoryFiles
  \/ EntryMissing
  \/ LaunchFails
  \/ \E r \in RefCatalogue : ExtractRef(r)
  \/ StaticDone
  \/ \E u \in RequestCatalogue : OnRequest(u)
  \/ AuditNewPage
  \/ AuditClosePage
  \/ RuntimeDone
  \/ GenerateReports
  \/ \E written \in BOOLEAN : ReportWriteFails(written)
  \/ AuditExit
  \/ Step3Begin
  \/ Step3Loop
  \/ Step3Copy
  \/ Step3Remove
  \/ Step3End
  \/ CleanupBegin
  \/ CleanupLoop
  \/ CleanupCopy
  \/ CleanupRemove
  \/ CleanupEnd

Spec == Init /\ [][Next]_vars

SpecExport == InitExport /\ [][NextExport]_vars

SpecRender == InitRender /\ [][NextRender]_vars

SpecAuto == InitAuto /\ [][NextAuto]_vars

SpecScenario == InitScenario /\ [][NextScenario]_vars

SpecPage == InitPage /\ [][NextPage]_vars

\* timers that are pending fire, and the page runs the scroll steps it has set
FairPage ==
  /\ SpecPage
  /\ WF_vars(\E grow \in 0..2 : ScrollStep(grow))
  /\ WF_vars(WaitStart)
  /\ WF_vars(TimerFires("ceiling"))

(***************************************************************************)
(* The statements checked of the auditor and of the prune engines.         *)
(***************************************************************************)
InventoryPaths == {fileInventory[i].path : i \in 1..Len(fileInventory)}

UnusedPaths == {unusedFiles[i].path : i \in 1..Len(unusedFiles)}

ListedPaths ==
  IF auditReport.exists
    THEN {auditReport.largest_unused_files[i].path :
            i \in 1..Len(auditReport.largest_unused_files)}
    ELSE {}

\* C1: once generateReports has classified the files, the essential set
\* (usedFiles) and the unused set partition the file inventory: their union
\* is the inventory and they share no path.
C1_InventoryPartition ==
  apc = "done" =>
    /\ usedFiles \cup UnusedPaths = InventoryPaths
    /\ usedFiles \cap UnusedPaths = {}

\* C2: the entry document is never in the unused-file list of an audit report.
C2_EntryNeverUnused ==
  auditReport.exists => entry_html \notin ListedPaths

\* C3: the entry document, present when the audit wrote its report, is still
\* in the mirror whatever a prune engine has done with that report.
C3_EntryNeverDeleted ==
  auditReport.exists => entry_html \in DOMAIN exportDir

C5_RerunChangesNothing ==
  [][runs' >= 2 =>
       /\ exportDir' = exportDir
       /\ backupDir' = backupDir
       /\ ppc' # "failed"]_vars

\* C6: when a prune engine has run on the report of an audit, no file that
\* the audit classified as unused is left in the mirror, the entry document
\* apart.
C6_NoUnusedFileLeft ==
  (ppc = "done" /\ runs >= 1) =>
    \A p \in UnusedPaths : p = entry_html \/ p \notin DOMAIN exportDir

(***************************************************************************)
(* The statements checked of the exporter.                                 *)
(***************************************************************************)
\* the document the rewrite pass starts from
OriginalDoc == SelectSeq(baseHTML, LAMBDA el : el.tag # "base")

\* the url of each entry of a srcset value
SrcsetRefs(srcset) ==
  IF HasValue(srcset)
    THEN LET parts == Split(srcset, ",")
         IN  [i \in 1..Len(parts) |-> Split(Trim(parts[i]), " ")[1]]
    ELSE <<>>

\* the references an element holds: href, src, data-src, each srcset entry
RefsOf(el) == <<el.href, el.src, el.dataSrc>> \o SrcsetRefs(el.srcset)

\* the file under dist/ a reference of dist/index.html names
LocalFile(r) ==
  Join(NormSegs(Split(<<"dist", "/">> \o SubSeq(r, 1, QueryStart(r) - 1), "/"),
                <<>>), <<"/">>)

IsLocalFile(r) == ~isAbsolute(r) /\ LocalFile(r) \in DOMAIN dist

IsInline(r) == Len(r) = 3 /\ r[1] \in DataSchemes /\ r[2] = ","

IsRemote(r) == r # <<>> /\ r[1] \in Origins

Candidates == {combinedAssets[i] : i \in 1..Len(combinedAssets)}

\* the download loop run from the start over the candidates cands, ok[u]
\* telling whether the fetch of u succeeds
RECURSIVE RunLoop(_, _, _)
RunLoop(cands, ok, st) ==
  IF cands = <<>> THEN st
  ELSE RunLoop(Tail(cands), ok, DownloadStep(st, Head(cands), ok[Head(cands)]))

NothingDone ==
  [rewriteMap |-> <<>>, dist |-> <<>>, cssFiles |-> <<>>, jsFiles |-> <<>>,
   otherFiles |-> <<>>]

\* C7: the rewrite pass applied to the document it has already rewritten,
\* with the same resolution map, changes no attribute of any element.
C7_RewriteIdempotent ==
  [][(xpc = "rewrite" /\ passes >= 1 /\ passes' = passes + 1) => doc' = doc]_vars

\* C8: after the rewrite pass every reference of the document (href, src,
\* data-src, each srcset entry, on any element) is the path of a file that
\* exists in the local asset tree, an inline data payload or a remote
\* absolute url.
C8_NoDanglingReference ==
  (xpc = "rewrite" /\ passes = 1) =>
    \A i \in 1..Len(doc) :
      \A k \in 1..Len(RefsOf(doc[i])) :
        LET r == RefsOf(doc[i])[k]
        IN  HasValue(r) => IsLocalFile(r) \/ IsInline(r) \/ IsRemote(r)

\* C9: after the rewrite pass every reference to an asset whose fetch failed
\* is that asset's absolute url.
C9_FailedFetchKeepsAbsoluteUrl ==
  (xpc = "rewrite" /\ passes = 1) =>
    \A i \in 1..Len(doc) :
      \A k \in 1..Len(RefsOf(OriginalDoc[i])) :
        LET r0 == RefsOf(OriginalDoc[i])[k]
            abs == toAbsolute(url, r0)
        IN  (HasValue(r0) /\ abs \in DOMAIN responses /\ ~responses[abs]) =>
              /\ k <= Len(RefsOf(doc[i]))
              /\ RefsOf(doc[i])[k] = abs

\* C10: when the download loop is over, whatever fetches failed, every
\* candidate has been processed and has its entry in the resolution map, and
\* a candidate whose fetch succeeded has the entry it has when no fetch
\* fails.
C10_DownloadsIndependent ==
  xpc = "rewrite" =>
    /\ DOMAIN responses = Candidates
    /\ DOMAIN rewriteMap = Candidates
    /\ \A u \in Candidates :
         responses[u] =>
           rewriteMap[u] =
             RunLoop(combinedAssets, [c \in Candidates |-> TRUE],
                     NothingDone).rewriteMap[u]

\* C11: when the download loop is over, a candidate whose fetch succeeded is
\* mapped to an inline data payload if and only if it is an image of at most
\* SMALL_INLINE_MAX bytes; every other fetched candidate is a file of the
\* local asset tree and is mapped to that file's path.
C11_DispositionRule ==
  xpc = "rewrite" =>
    \A u \in Candidates :
      responses[u] =>
        IF isLikelyImage(u) /\ Served(u).length <= SMALL_INLINE_MAX
          THEN IsInline(rewriteMap[u])
          ELSE /\ rewriteMap[u] = relFromIndex(u)
               /\ localAssetPath(u) \in DOMAIN dist

(***************************************************************************)
(* The statements checked of the viewport passes.                          *)
(***************************************************************************)
\* the viewports in whose pass a click was interrupted by a navigation
Interrupted ==
  {k \in 1..Len(BREAKPOINTS) :
     <<BREAKPOINTS[k], "Click interrupted by navigation">> \in consoleLog}

Range(s) == {s[i] : i \in 1..Len(s)}

\* C12: a navigation failure in the pass of one viewport does not end the
\* run: no run of the exporter is aborted with the error of page.goto.
C12_NavigationFailureContained ==
  rpc = "aborted" => exportError # "page.goto"

\* C13: a click that raises a destroyed-context error in the pass of
\* viewport k does not end the run with that error, and when the render has
\* returned, every viewport after k has its result and every url its pass
\* recorded or returned is in the merged resource set.
C13_ClickFailureContained ==
  /\ exportError # "Execution context was destroyed"
  /\ \A k \in Interrupted :
       xpc = "rendered" =>
         \A j \in (k + 1)..Len(BREAKPOINTS) :
           /\ Len(results) >= j
           /\ results[j].name = BREAKPOINTS[j]
           /\ Range(results[j].resources) \cup Range(reqUrls[j]) \subseteq
                Range(allResources)

\* C13, its case: a click was interrupted at a viewport before the last, the
\* render has returned and a later pass has recorded a request
C13_Witness ==
  /\ xpc = "rendered"
  /\ \E k \in Interrupted :
       \E j \in (k + 1)..Len(BREAKPOINTS) : reqUrls[j] # <<>>

\* C14: the viewport passes run one after another: at most one page is open,
\* it is the page of the pass in progress, no page is open between two
\* passes or after a failed pass, and every url in the reqUrls of a pass was
\* requested by the page of that viewport.
C14_OnePassAtATime ==
  /\ Cardinality(pages) <= 1
  /\ pages \subseteq {vp}
  /\ rpc \in {"start", "delay", "returned", "aborted", "off"} => pages = {}
  /\ \A k \in DOMAIN reqUrls : Range(reqUrls[k]) \subseteq PageRequests(k)

\* C14, its case: the page of the second viewport is open and has recorded a
\* request, the pass of the first viewport being over
C14_Witness ==
  /\ vp = 2
  /\ pages = {2}
  /\ Len(results) = 1
  /\ reqUrls[1] # <<>>
  /\ reqUrls[2] # <<>>

(***************************************************************************)
(* Claims about AutoExporter.run                                           *)
(***************************************************************************)
\* the first entries of the list this run's audit classified as unused
ClassifiedUnused ==
  SubSeq(unusedFiles, 1,
         IF Len(unusedFiles) < LargestCount THEN Len(unusedFiles) ELSE LargestCount)

\* C15: in the auto-export workflow the stages run in the order export, audit,
\* cleanup, final output, final verification, each after the one before it has
\* completed: the audit begins only on an exported mirror, cleanup begins only
\* after the auditor has ended, the list cleanup works on is the one this
\* run's audit classified as unused (never that of a report written before
\* the mirror was exported), when that audit wrote no report cleanup deletes
\* and backs up nothing, the final directory is written only after cleanup is
\* done, and the final verification has run only on a written final directory.
C15_StagesInOrder ==
  wpc # "off" =>
    /\ apc # "off" => wpc \notin {"step1", "step2"}
    /\ wpc \in {"step2", "audit"} => entry_html \in DOMAIN exportDir
    /\ wpc \in {"step1", "step2", "audit"} =>
         ppc = "idle" /\ deleted = {} /\ backupDir = EmptyDir /\ finalDir = <<>>
    /\ ppc # "idle" => apc = "exited"
    /\ ppc \in {"loop", "copy", "remove", "done"} => unusedList = ClassifiedUnused
    /\ ppc = "failed" => unusedList = <<>> /\ deleted = {} /\ finalDir = <<>>
    /\ unusedFiles = <<>> => deleted = {}
    /\ finalDir # <<>> => ppc = "done" /\ wpc \in {"step5", "cleanup", "finished"}
    /\ wpc \in {"step5", "cleanup"} => ExportInfo.path \in DOMAIN finalDir
    /\ wpc \in {"step5", "cleanup"} =>
         finalDir = CopyInto(exportDir, ExportInfo.path, ExportInfo.size)

\* the workflow has finished after cleanup deleted files of the mirror
C15_Witness ==
  /\ wpc = "finished"
  /\ deleted # {}
  /\ finalDir # <<>>
  /\ auditReport.exists

C17_ScenarioEssentialSet ==
  LET css == CHOOSE p \in DOMAIN exportDir : Last(p) = "s.css"
      font == SubSeq(css, 1, Len(css) - 1) \o <<"c.woff2">>
  IN  (/\ apc = "done"
       /\ \A r \in ScenarioRefs(exportDir) :
            /\ r.url \in DOMAIN staticAssets
            /\ r.source \in staticAssets[r.url].sources
       /\ \E k \in 1..Len(networkLog) : networkLog[k] = <<ServerOrigin, "/", "d.js">>)
      => /\ {APng, BPng, font, <<"d.js">>} \cap UnusedPaths = {}
         /\ <<"e.png">> \in UnusedPaths

(***************************************************************************)
(* Claims about the numbers of the report                                  *)
(***************************************************************************)
\* C18: the waste ratio of a report is a percentage, for every inventory, also
\* one of total size zero, and it is unused_size_kb divided by total_size_kb
\* of the same report, rounded to the nearest whole percent.
C18_WasteRatioFromReport ==
  auditReport.exists =>
    LET s == auditReport.summary
    IN  /\ s.waste_percentage \in 0..100
        /\ s.total_size_kb > 0 =>
             s.waste_percentage =
               (200 * s.unused_size_kb + s.total_size_kb) \div (2 * s.total_size_kb)

\* C19: in every audit report the sizes partition the total: used_size_kb +
\* unused_size_kb = total_size_kb, and the total_size_kb of the extensions of
\* unused_files_by_type add up to unused_size_kb.
C19_SizesPartitionTotal ==
  auditReport.exists =>
    LET s == auditReport.summary
        g == auditReport.unused_files_by_type
        RECURSIVE SumOver(_)
        SumOver(exts) ==
          IF exts = {} THEN 0
          ELSE LET e == CHOOSE x \in exts : TRUE
               IN  g[e].total_size_kb + SumOver(exts \ {e})
    IN  /\ s.used_size_kb + s.unused_size_kb = s.total_size_kb
        /\ SumOver(DOMAIN g) = s.unused_size_kb

(***************************************************************************)
(* Claims about the bundling of balanced mode                              *)
(***************************************************************************)
\* C20: balanced mode keeps every script.  When main() goes from the rewritten
\* document to the final one, every script a script element with src loaded
\* before (the file it names under dist/, or the remote url kept after a
\* failed download) is in app.bundle.js or is still the src of a script
\* element of the final document.
C20_BalancedKeepsEveryScript ==
  [][(xpc = "rewrite" /\ xpc' = "written") =>
       \A i \in 1..Len(doc) :
         (doc[i].tag = "script" /\ doc[i].src # Null) =>
           LET src == doc[i].src
               loaded == IF IsLocalFile(src) THEN dist[LocalFile(src)] ELSE src
           IN  \/ \E j \in 1..Len(doc') : doc'[j].tag = "script" /\ doc'[j].src = src
               \/ /\ BundlePath \in DOMAIN dist'
                  /\ \E k \in 1..(Len(dist'[BundlePath]) - Len(loaded) + 1) :
                       SubSeq(dist'[BundlePath], k, k + Len(loaded) - 1) = loaded
    ]_vars

(***************************************************************************)
(* Claims about waitForNetworkIdle and the auto-scroll                     *)
(***************************************************************************)
\* C21: a request that starts while the idle timer is pending cancels the
\* timer, and the wait ends through the idle timer only when no request it
\* has seen begin is still in flight.
C21_IdleOnlyWhenQuiet ==
  [][/\ (onReq /\ timerId) => ~timerId'
     /\ (TimerFires("idle") /\ hpc = "wait") => observedOpen = 0
    ]_vars

\* C22: the in-flight counter is never negative, the ceiling timer is pending
\* for as long as the wait is, so that the wait is over when the ceiling
\* timer fires at the latest, a wait that is over has no listener on the page
\* and no ceiling timer left, and every wait that has begun ends, whatever the
\* requests do.
C22_WaitEndsAtCeiling ==
  /\ [](inflight >= 0)
  /\ [](hpc = "wait" => tId /\ listeners # {})
  /\ [](hpc = "done" => listeners = {} /\ ~tId)
  /\ (hpc = "wait") ~> (hpc = "done")

\* the ceiling timer ended the wait while a request was in flight and the
\* idle timer was pending
C22_Witness ==
  /\ hpc = "done"
  /\ timerId
  /\ observedOpen > 0
  /\ inflight > 0

\* C25: the auto-scroll of a page ends, on every page, also on one that gets
\* longer as it is scrolled.
C25_ScrollTerminates == <>(hpc # "scroll")

(***************************************************************************)
(* Claims about the sub-steps of a capture pass                            *)
(***************************************************************************)
\* C23: a failure of one interaction sub-step is caught there and the pass goes
\* on with the next sub-step: after a failed details expansion the selectors
\* are still worked through, and after a failed click the selector loop goes
\* on with the next selector.
C23_SubStepsIndependent ==
  [][/\ (rpc = "loaded" /\ faults' = faults + 1) => rpc' = "selectors"
     /\ (rpc = "selectors" /\ si <= Len(selectors) /\ faults' = faults + 1) =>
          (rpc' = "selectors" /\ si' = si + 1)
    ]_vars

C27_LocalPathsCollisionFree ==
  xpc \in {"rewrite", "written"} =>
    LET persisted == {u \in DOMAIN rewriteMap :
                        StartsWith(rewriteMap[u], <<".", "/", "assets">>)}
    IN  /\ \A u, v \in persisted : u # v => rewriteMap[u] # rewriteMap[v]
        /\ \A u \in persisted : dist[localAssetPath(u)] = u

(***************************************************************************)
(* Claims about the directories of the workflow                            *)
(***************************************************************************)
\* C28: the final directory AutoExporter derives from the page name is none of
\* temp_export, audit and backup_unused, and step 4, which removes and
\* recreates the final directory, deletes neither the mirror it copies nor
\* the audit report.
C28_FinalDirIsNoWorkDir ==
  /\ [](wpc # "off" =>
          pageName \notin {<<"temp_export">>, <<"audit">>, <<"backup_unused">>})
  /\ [][(wpc = "step3" /\ wpc' \in {"step5", "failed"} /\ ppc = "done") =>
          (exportDir' = exportDir /\ auditReport' = auditReport)]_vars

\* C29: in every state of the workflow, the finished one included, every file
\* step3_Cleanup has deleted from the mirror has a copy at the same relative
\* path under the backup root.
C29_BackupsOutliveDeletion ==
  wpc # "off" => \A p \in deleted : p \in DOMAIN backupDir

(***************************************************************************)
(* Claims about what the auditor leaves behind                             *)
(***************************************************************************)
\* C30: when audit() has returned or thrown, whether the entry document was
\* missing, the browser could not be launched, a viewport failed, a report
\* could not be written or all went well, the local server the auditor
\* started is closed and no page is open.
C30_AuditLeavesNothingOpen ==
  apc \in {"done", "failed"} => (server # "listening" /\ ~pageOpen)

\* audit() has thrown at the reports after a page made requests to the
\* server, which is closed
C30_Witness ==
  /\ apc = "failed"
  /\ networkLog # <<>>
  /\ server = "closed"
  /\ ~pageOpen

====
